---- MODULE Spec2Model ----
(***************************************************************************)
(* Model of magic-monitor's two core subsystems:                           *)
(*   - the smart-zoom auto-framing hook (useSmartZoom, clampNormalizedPan) *)
(*   - the disk time machine (DiskBufferService, useDiskTimeMachine)       *)
(*                                                                         *)
(* Real numbers are fixed-point integers: the value v is stored as         *)
(* v * Scale, and every division truncates toward zero.                    *)
(***************************************************************************)
EXTENDS Integers, Sequences, FiniteSets, TLC

VARIABLES
    \* ---- useSmartZoom ----
    smoother,          \* smootherRef.current: preset and filter state
    prevPosition,      \* prevPositionRef.current {x, y, zoom}
    committedTarget,   \* committedTargetRef.current {zoom, pan}
    zoom,              \* published zoom (useState)
    pan,               \* published pan (useState)
    clampedEdges,      \* published clampedEdges (useState)
    lastVideoTime,     \* lastVideoTimeRef.current
    videoTime,         \* video.currentTime (environment)
    frameCount,        \* frameCountRef.current
    debugTrace,        \* debugTraceRef.current
    zoomEnabled,       \* the enabled prop of useSmartZoom
    smoothingPreset,   \* the smoothingPreset prop
    landmarker,        \* loadModel: "loading", "ready" (landmarkerRef.current
                       \* is set) or "failed" (it stays null)
    zoomEffectDirty,   \* a dependency of the hook's effects changed
    requestRef,        \* a call of detect is due (requestAnimationFrame)
    skipped,           \* the last call of detect found the frame time unchanged
    \* ---- clampNormalizedPan applied to drawn inputs ----
    cPan,              \* the input pan
    cZoom,             \* the input zoom
    cStage,            \* "input", "once" (clamped), "twice" (result clamped again)
    cRes,              \* clampNormalizedPan(cPan, cZoom)
    cRes2,             \* clampNormalizedPan(cRes.pan, cZoom)
    \* ---- DiskBufferService (IndexedDB object store "chunks") ----
    db,                \* the stored chunks, records [id, timestamp]
    nextId,            \* the autoIncrement key generator
    lastCall,          \* the service call that ran last: [op, keep]
    dbOpens,           \* indexedDB.open succeeds (getDB resolves)
    \* ---- useDiskTimeMachine: props and environment ----
    enabled,           \* the enabled prop
    videoReady,        \* videoRef.current.readyState >= 3
    clock,             \* Date.now()
    \* ---- useDiskTimeMachine: recording ----
    isRecording,       \* useState
    recordingError,    \* useState
    mediaRecorderRef,  \* mediaRecorderRef.current: a recorder (its start time) or 0
    recording,         \* the MediaRecorders whose state is "recording"
    recordingIntervalRef, \* recordingIntervalRef.current: a timer id or 0
    rotationTimers,    \* live setInterval timers that rotate chunks
    pollTimers,        \* live setInterval timers that poll readyState
    polls,             \* checkReady callbacks of the live poll that found the
                       \* video not ready
    unmounted,         \* the component that owns the hook was unmounted
    effectDirty,       \* a dependency of the recording-loop effect changed
    cleanup,           \* what the last run of the effect returned
    \* ---- useDiskTimeMachine: finalize chains (recorder.onstop) ----
    chains,            \* the onstop handlers in flight
    chunkCount,        \* useState
    saveSeq,           \* number of saveChunk calls that completed
    prunedSeq,         \* saves covered by a completed pruneOldChunks
    failedTs,          \* start time of the latest chunk whose finalize chain
                       \* threw into its catch (0: none)
    \* ---- useDiskTimeMachine: replay ----
    isReplaying,       \* useState
    isPlaying,         \* useState
    currentChunkIndex, \* useState
    chunksRef,         \* chunksRef.current
    enterPc,           \* enterReplay: "idle" or "reading" (awaiting getAllChunks)
    enterEmptyAtCall,  \* the store was empty when enterReplay was last called
    exitedReplay,      \* exitReplay was called since the last replay began
    playbackFailed,    \* play() of the chunk now loaded was rejected
    nextsLeft,         \* session length at enterReplay minus the nextChunk calls
                       \* since; -1 once another control ran
    seekArg,           \* the index passed to seekToChunk when it was the replay
                       \* control that ran last, else NoSeek
    \* ---- useDiskTimeMachine: export ----
    isExporting,       \* useState
    saveVideoSees,     \* the isExporting the current saveVideo callback closed over
    exports,           \* exportVideo calls in flight
    exportCalls,       \* exportVideo calls made
    downloads,         \* deviceService.downloadDataUrl calls made
    \* ---- clampSpeed on its own ----
    sPrev,             \* argument prev
    sNext,             \* argument next
    sHands,            \* whether the full or the halved speeds are passed
    sRes,              \* the value clampSpeed returned
    sStage,            \* "input" or "clamped"
    \* ---- one smoother fed a constant target ----
    fSmoother,         \* the smoother's state
    fTarget,           \* the target passed to every update
    fCalls,            \* update calls made, counted up to MaxUpdates
    \* ---- DiskBufferService.exportVideo called on its own ----
    exportBlob,        \* the Blob it returned: the ids of the chunks whose
                       \* blobs it holds, in order
    exportProgress     \* the values passed to onProgress, in order

clampVars == <<cPan, cZoom, cStage, cRes, cRes2>>

storeVars == <<db, nextId, lastCall, dbOpens>>

envVars == <<enabled, videoReady, clock, unmounted>>

recVars == <<isRecording, recordingError, mediaRecorderRef, recording,
             recordingIntervalRef, rotationTimers, pollTimers, polls,
             effectDirty, cleanup>>

chainVars == <<chains, chunkCount, saveSeq, prunedSeq, failedTs>>

replayVars == <<isReplaying, isPlaying, currentChunkIndex, chunksRef, enterPc,
                enterEmptyAtCall, exitedReplay, playbackFailed, nextsLeft, seekArg>>

hookVars == <<envVars, recVars, chainVars, replayVars>>

exportVars == <<isExporting, saveVideoSees, exports, exportCalls, downloads>>

speedVars == <<sPrev, sNext, sHands, sRes, sStage>>

smoothVars == <<fSmoother, fTarget, fCalls>>

exportOutVars == <<exportBlob, exportProgress>>

filterVars == <<speedVars, smoothVars, exportOutVars>>

loopVars == <<zoomEnabled, smoothingPreset, landmarker, zoomEffectDirty,
              requestRef, skipped>>

zoomVars == <<smoother, prevPosition, committedTarget, zoom, pan, clampedEdges,
              lastVideoTime, videoTime, frameCount, debugTrace, loopVars>>

\* ------------------------------------------------------------------------
\* Bounds of the model
\* ------------------------------------------------------------------------
\* fixed-point unit: a common multiple of the denominators the program's
\* constants need (1/10, 1/40, 1/3, 1/8, 1/20)
Scale == 40 * 30

\* number of video frames the camera delivers in a run
MaxTicks == 3

\* number of video frames of the session that zooms in and loses the hand
ReturnTicks == 12

\* ticks of the long session, and how many of them hold the fingertip
RangeTicks == 26

RangeHold == 22

\* cap of the debug trace in the model (the program's cap is 900 entries)
TraceCap == 3

\* number of chunks saved in a run of the store
MaxSaves == 4

\* largest timestamp a test of the store saves
MaxTimestamp == 3

\* largest keepCount passed to pruneOldChunks by a test of the store
MaxKeep == 3

\* maxChunks of the hook in the model (the program's default is 30)
maxChunks == 1

\* number of recording chunks started in a run of the hook
MaxClock == 2

\* number of setInterval timers created in a run of the hook
MaxTimers == 3

\* readiness polls counted while the video is not ready
MaxPolls == 3

\* number of saveVideo calls that reach exportVideo in a run
MaxExports == 3

\* update calls counted on the smoother fed a constant target
MaxUpdates == 3

\* ------------------------------------------------------------------------
\* Fixed-point helpers
\* ------------------------------------------------------------------------
Abs(a) == IF a < 0 THEN -a ELSE a

Min2(a, b) == IF a < b THEN a ELSE b

Max2(a, b) == IF a > b THEN a ELSE b

\* division truncating toward zero, b > 0
TDiv(a, b) == IF a >= 0 THEN a \div b ELSE -((-a) \div b)

\* ------------------------------------------------------------------------
\* Smart zoom constants (useSmartZoom)
\* ------------------------------------------------------------------------
MIN_ZOOM == 1 * Scale

MAX_ZOOM == 3 * Scale

ZOOM_THRESHOLD == Scale \div 10

PAN_THRESHOLD == Scale \div 40

Padding == 2 * Scale

\* ------------------------------------------------------------------------
\* clampNormalizedPan
\* ------------------------------------------------------------------------
\* maxPan = (1 - 1/zoom) / 2
MaxPanOf(z) == TDiv(Scale - TDiv(Scale * Scale, z), 2)

\* mutant: strict comparisons
ClampedEdgesStrict(p, z) ==
    [left   |-> p.x > MaxPanOf(z),
     right  |-> p.x < -MaxPanOf(z),
     top    |-> p.y > MaxPanOf(z),
     bottom |-> p.y < -MaxPanOf(z)]

ClampedEdgesOf(p, z) ==
    [left   |-> p.x >= MaxPanOf(z),
     right  |-> p.x <= -MaxPanOf(z),
     top    |-> p.y >= MaxPanOf(z),
     bottom |-> p.y <= -MaxPanOf(z)]

\* mutant: min and max applied in the wrong order
ClampedPanSwapped(p, z) ==
    [x |-> Max2(Min2(p.x, -MaxPanOf(z)), MaxPanOf(z)),
     y |-> Max2(Min2(p.y, -MaxPanOf(z)), MaxPanOf(z))]

\* mutant: the y axis is left unclamped
ClampedPanXOnly(p, z) ==
    [x |-> Min2(Max2(p.x, -MaxPanOf(z)), MaxPanOf(z)), y |-> p.y]

ClampedPanOf(p, z) ==
    [x |-> Min2(Max2(p.x, -MaxPanOf(z)), MaxPanOf(z)),
     y |-> Min2(Max2(p.y, -MaxPanOf(z)), MaxPanOf(z))]

clampNormalizedPan(p, z) ==
    [pan |-> ClampedPanOf(p, z), clampedEdges |-> ClampedEdgesOf(p, z)]

\* ------------------------------------------------------------------------
\* smoothing module (createSmoother, clampSpeed, DEFAULT_SPEED_CLAMP)
\* ------------------------------------------------------------------------
Presets == {"ema", "kalmanFast", "kalmanSmooth"}

EmaAlpha == Scale \div 4

KalmanQ(preset) == IF preset = "kalmanFast" THEN Scale \div 10 ELSE Scale \div 100

KalmanR(preset) == IF preset = "kalmanFast" THEN Scale \div 10 ELSE Scale \div 2

maxPanSpeed == Scale \div 20

maxZoomSpeed == Scale \div 10

\* createSmoother(preset) followed by reset(): the default filter state
createSmoother(preset) ==
    [preset |-> preset, x |-> 0, y |-> 0, zoom |-> 1 * Scale,
     px |-> Scale, py |-> Scale, pzoom |-> Scale]

\* mutant: the update keeps the previous estimate
EmaStepFrozen(est, target) == est

EmaStep(est, target) == est + TDiv((target - est) * EmaAlpha, Scale)

\* predict: inflate the uncertainty; update: blend by the Kalman gain
KalmanP1(p, preset) == p + KalmanQ(preset)

KalmanEst(est, p, target, preset) ==
    est + TDiv(KalmanP1(p, preset) * (target - est),
               KalmanP1(p, preset) + KalmanR(preset))

KalmanP(p, preset) ==
    TDiv(KalmanP1(p, preset) * KalmanR(preset),
         KalmanP1(p, preset) + KalmanR(preset))

\* Smoother.update(target): the smoother's next state; its x, y, zoom are
\* the smoothed estimate that update returns
SmootherUpdate(s, target) ==
    IF s.preset = "ema"
    THEN [s EXCEPT !.x = EmaStep(s.x, target.x),
                   !.y = EmaStep(s.y, target.y),
                   !.zoom = EmaStep(s.zoom, target.zoom)]
    ELSE [s EXCEPT !.x = KalmanEst(s.x, s.px, target.x, s.preset),
                   !.y = KalmanEst(s.y, s.py, target.y, s.preset),
                   !.zoom = KalmanEst(s.zoom, s.pzoom, target.zoom, s.preset),
                   !.px = KalmanP(s.px, s.preset),
                   !.py = KalmanP(s.py, s.preset),
                   !.pzoom = KalmanP(s.pzoom, s.preset)]

\* mutant: only an increase is limited
ClampStepUpOnly(prev, next, maxSpeed) ==
    IF next - prev > maxSpeed THEN prev + maxSpeed ELSE next

ClampStep(prev, next, maxSpeed) ==
    IF next - prev > maxSpeed THEN prev + maxSpeed
    ELSE IF next - prev < -maxSpeed THEN prev - maxSpeed
    ELSE next

clampSpeed(prev, next, panSpeed, zoomSpeed) ==
    [x |-> ClampStep(prev.x, next.x, panSpeed),
     y |-> ClampStep(prev.y, next.y, panSpeed),
     zoom |-> ClampStep(prev.zoom, next.zoom, zoomSpeed)]

\* ------------------------------------------------------------------------
\* clampSpeed and Smoother.update applied on their own
\* ------------------------------------------------------------------------
SpeedPans == {0 - 100, 0, 100}

SpeedPanTargets == {0 - 160, 0 - 40, 0, 40, 100, 160}

SpeedZooms == {1200, 2400}

SpeedZoomTargets == {1200, 1320, 2300, 2400, 3600}

Point3(px, py, pz) == [x |-> px, y |-> py, zoom |-> pz]

NoPoint == Point3(0, 0, 1 * Scale)

SpeedInit ==
    /\ sPrev \in {Point3(px, 0 - px, pz) : px \in SpeedPans, pz \in SpeedZooms}
    /\ sNext \in {Point3(px, py, pz) : px \in SpeedPanTargets, py \in {0 - 40, 160},
                                        pz \in SpeedZoomTargets}
    /\ sHands \in BOOLEAN
    /\ sRes = NoPoint
    /\ sStage = "input"

SpeedIdle ==
    /\ sPrev = NoPoint
    /\ sNext = NoPoint
    /\ sHands = TRUE
    /\ sRes = NoPoint
    /\ sStage = "input"

\* the pan speed detect passes: halved when no hand is in the frame
SpeedPanLimit(hands) == IF hands THEN maxPanSpeed ELSE TDiv(maxPanSpeed, 2)

SpeedZoomLimit(hands) == IF hands THEN maxZoomSpeed ELSE TDiv(maxZoomSpeed, 2)

ClampSpeedOnce ==
    /\ sStage = "input"
    /\ sRes' = clampSpeed(sPrev, sNext, SpeedPanLimit(sHands), SpeedZoomLimit(sHands))
    /\ sStage' = "clamped"
    /\ UNCHANGED <<sPrev, sNext, sHands>>

SmoothTargets == {Point3(px, py, pz) : px \in {0 - 300, 0, 240}, py \in {0, 120},
                                       pz \in {1200, 2400, 3600}}

SmoothInit ==
    /\ \E preset \in Presets : fSmoother = createSmoother(preset)
    /\ fTarget \in SmoothTargets
    /\ fCalls = 0

SmoothIdle ==
    /\ fSmoother = createSmoother("ema")
    /\ fTarget = NoPoint
    /\ fCalls = 0

\* smoother.update(target) with the same target again
SmoothUpdate ==
    /\ fSmoother' = SmootherUpdate(fSmoother, fTarget)
    /\ fCalls' = Min2(fCalls + 1, MaxUpdates)
    /\ UNCHANGED fTarget

\* no exportVideo call was made yet
ExportOutIdle ==
    /\ exportBlob = << >>
    /\ exportProgress = << >>

FilterIdle == SpeedIdle /\ SmoothIdle /\ ExportOutIdle

\* ------------------------------------------------------------------------
\* Detector output: the frames the hand landmarker can report
\* ------------------------------------------------------------------------
Pt(px, py) == [x |-> px, y |-> py]

Frames ==
    { << >>,                                           \* no hands
      << <<Pt(450, 450), Pt(750, 750)>> >>,            \* 0.25 x 0.25, centred
      << <<Pt(456, 450), Pt(756, 750)>> >>,            \* the same box moved by 0.005
      << <<Pt(540, 450), Pt(840, 750)>> >>,            \* the same box moved by 0.075
      << <<Pt(480, 480), Pt(720, 720)>> >>,            \* 0.2 x 0.2, centred
      << <<Pt(60, 60)>>, <<Pt(120, 120)>> >>,          \* two hands, top-left corner
      << <<Pt(600, 600)>> >>,                          \* a single point
      << <<Pt(0, 0), Pt(1200, 1200)>> >> }             \* the whole frame

\* the frames fed to the hook when its life cycle is explored: no hands, a
\* single point, a centred box
LoopFrames ==
    { << >>,
      << <<Pt(600, 600)>> >>,
      << <<Pt(450, 450), Pt(750, 750)>> >> }

\* a session that zooms in on one fingertip and then loses the hand: the
\* frame the detector reports for the n-th processed tick. The fingertip
\* is at the centre for six ticks, at the left edge for two, in the left
\* half of the top edge for two; then no hand is in the frame
ReturnFrames(n) ==
    IF n <= 6 THEN { << <<Pt(600, 600)>> >> }
    ELSE IF n <= 8 THEN { << <<Pt(0, 600)>> >> }
    ELSE IF n <= 10 THEN { << <<Pt(0, 0)>> >>, << <<Pt(0, 120)>> >> }
    ELSE { << >> }

\* a long session on one fingertip in the top-left corner, then any of: the
\* fingertip again, no hand, a hand that fills the frame, a hand that fills
\* the top-left quarter
RangeFrames(n) ==
    IF n <= RangeHold THEN { << <<Pt(0, 0)>> >> }
    ELSE { << <<Pt(0, 0)>> >>, << >>, << <<Pt(0, 0), Pt(1200, 1200)>> >>,
           << <<Pt(0, 0), Pt(600, 600)>> >> }

\* all landmarks of all hands (result.landmarks.forEach(hand => hand.forEach))
Landmarks(hands) == UNION { {hands[h][i] : i \in DOMAIN hands[h]} : h \in DOMAIN hands }

SetMin(S) == CHOOSE m \in S : \A e \in S : m <= e

SetMax(S) == CHOOSE m \in S : \A e \in S : m >= e

\* let minX = 1, minY = 1, maxX = 0, maxY = 0, then narrowed by every point
BoundingBox(hands) ==
    [minX |-> SetMin({1 * Scale} \cup {q.x : q \in Landmarks(hands)}),
     maxX |-> SetMax({0} \cup {q.x : q \in Landmarks(hands)}),
     minY |-> SetMin({1 * Scale} \cup {q.y : q \in Landmarks(hands)}),
     maxY |-> SetMax({0} \cup {q.y : q \in Landmarks(hands)})]

\* mutant: the target zoom has no upper limit (10 stands for Infinity)
TargetZoomNoCeiling(box) ==
    LET maxDim == Max2(box.maxX - box.minX, box.maxY - box.minY)
        denom  == maxDim * Padding
    IN  IF denom = 0 THEN 10 * Scale
        ELSE IF denom < 0 THEN MIN_ZOOM
        ELSE Max2(TDiv(Scale * Scale * Scale, denom), MIN_ZOOM)

\* mutant: the padding is left out of the target zoom
TargetZoomNoPadding(box) ==
    LET maxDim == Max2(box.maxX - box.minX, box.maxY - box.minY)
    IN  IF maxDim = 0 THEN MAX_ZOOM
        ELSE Min2(Max2(TDiv(Scale * Scale, maxDim), MIN_ZOOM), MAX_ZOOM)

\* 1 / (maxDim * padding), clamped to [MIN_ZOOM, MAX_ZOOM]; 1/0 is Infinity
TargetZoom(box) ==
    LET maxDim == Max2(box.maxX - box.minX, box.maxY - box.minY)
        denom  == maxDim * Padding
    IN  IF denom = 0 THEN MAX_ZOOM
        ELSE IF denom < 0 THEN MIN_ZOOM
        ELSE Min2(Max2(TDiv(Scale * Scale * Scale, denom), MIN_ZOOM), MAX_ZOOM)

\* targetPan = 0.5 - center
TargetPan(box) ==
    [x |-> (Scale \div 2) - TDiv(box.minX + box.maxX, 2),
     y |-> (Scale \div 2) - TDiv(box.minY + box.maxY, 2)]

TargetOfBox(box) == [zoom |-> TargetZoom(box), pan |-> TargetPan(box)]

RawTarget(hands) == TargetOfBox(BoundingBox(hands))

\* ------------------------------------------------------------------------
\* Hysteresis / deadband check of detect
\* ------------------------------------------------------------------------
ZoomDelta(raw, committed) == Abs(raw.zoom - committed.zoom)

\* panDist squared; panDist > t is compared as panDist^2 > t^2
PanDistSq(raw, committed) ==
    (raw.pan.x - committed.pan.x) * (raw.pan.x - committed.pan.x)
    + (raw.pan.y - committed.pan.y) * (raw.pan.y - committed.pan.y)

\* mutant: both thresholds must be exceeded (AND instead of OR)
ShouldCommitBoth(raw, committed) ==
    /\ ZoomDelta(raw, committed) > ZOOM_THRESHOLD
    /\ PanDistSq(raw, committed) > PAN_THRESHOLD * PAN_THRESHOLD

ShouldCommit(raw, committed) ==
    \/ ZoomDelta(raw, committed) > ZOOM_THRESHOLD
    \/ PanDistSq(raw, committed) > PAN_THRESHOLD * PAN_THRESHOLD

Hysteresis(raw, committed) ==
    IF ShouldCommit(raw, committed) THEN raw ELSE committed

\* the default target {zoom: 1, pan: {x: 0, y: 0}}
DefaultTarget == [zoom |-> 1 * Scale, pan |-> [x |-> 0, y |-> 0]]

\* ------------------------------------------------------------------------
\* One processed detection tick
\* ------------------------------------------------------------------------
\* mutant: the full pan speed is passed on every tick
PanSpeedFull(hands) == maxPanSpeed

\* mutant: the full zoom speed is passed on every tick
ZoomSpeedFull(hands) == maxZoomSpeed

PanSpeedOf(hands) == IF Len(hands) > 0 THEN maxPanSpeed ELSE TDiv(maxPanSpeed, 2)

ZoomSpeedOf(hands) ==
    IF Len(hands) > 0 THEN maxZoomSpeed ELSE TDiv(maxZoomSpeed, 2)

SmoothTarget(c) == [x |-> c.pan.x, y |-> c.pan.y, zoom |-> c.zoom]

SpeedClamped(hands, prev, smoothed) ==
    clampSpeed(prev, smoothed, PanSpeedOf(hands), ZoomSpeedOf(hands))

\* mutant: when the trace is full the new entry is dropped
PushTraceKeepsOldest(trace, entry) ==
    IF Len(trace) + 1 > TraceCap THEN trace ELSE Append(trace, entry)

\* debugTraceRef.current.push(entry); shift() when over the cap
PushTrace(trace, entry) ==
    IF Len(trace) + 1 > TraceCap THEN Tail(Append(trace, entry)) ELSE Append(trace, entry)

TraceEntry(hands, raw, committed, next, edges) ==
    [frame |-> frameCount + 1,
     handsDetected |-> Len(hands),
     targetZoom |-> raw.zoom,
     targetPan |-> raw.pan,
     committedZoom |-> committed.zoom,
     committedPan |-> committed.pan,
     currentZoom |-> next.zoom,
     currentPan |-> [x |-> next.x, y |-> next.y],
     clampedEdges |-> edges]

\* each stage is bound once, in the order the code computes it:
\* raw target, hysteresis, smoothing, speed clamp, viewport clamp
ProcessFrame(hands) ==
    \E raw \in {IF Len(hands) > 0 THEN RawTarget(hands) ELSE DefaultTarget} :
    \E committed \in {IF Len(hands) > 0 THEN Hysteresis(raw, committedTarget)
                      ELSE DefaultTarget} :
    \E sm \in {SmootherUpdate(smoother, SmoothTarget(committed))} :
    \E sc \in {SpeedClamped(hands, prevPosition, sm)} :
    \E vc \in {clampNormalizedPan([x |-> sc.x, y |-> sc.y], sc.zoom)} :
    \E next \in {[x |-> vc.pan.x, y |-> vc.pan.y, zoom |-> sc.zoom]} :
        /\ committedTarget' = committed
        /\ smoother' = sm
        /\ prevPosition' = next
        /\ frameCount' = frameCount + 1
        /\ debugTrace' = PushTrace(debugTrace,
                                   TraceEntry(hands, raw, committed, next, vc.clampedEdges))
        /\ zoom' = next.zoom
        /\ pan' = [x |-> next.x, y |-> next.y]
        /\ clampedEdges' = vc.clampedEdges

\* the animation-frame callback: a frame is processed only when the video
\* time has changed since the last processed frame
\* mutant: every callback processes the frame
FrameChangedAlways == TRUE

\* if (video.currentTime !== lastVideoTimeRef.current)
FrameChanged == videoTime # lastVideoTime

Detect(hands) ==
    /\ requestRef
    /\ FrameChanged
    /\ lastVideoTime' = videoTime
    /\ ProcessFrame(hands)
    /\ skipped' = FALSE
    /\ UNCHANGED <<videoTime, zoomEnabled, smoothingPreset, landmarker,
                   zoomEffectDirty, requestRef>>

\* the animation-frame callback finds video.currentTime unchanged: it only
\* requests the next animation frame
DetectIdle ==
    /\ requestRef
    /\ videoTime = lastVideoTime
    /\ skipped' = TRUE
    /\ UNCHANGED <<smoother, prevPosition, committedTarget, zoom, pan,
                   clampedEdges, lastVideoTime, videoTime, frameCount, debugTrace,
                   zoomEnabled, smoothingPreset, landmarker, zoomEffectDirty,
                   requestRef>>

\* the camera delivers the next video frame, up to a number of frames
VideoAdvanceTo(limit) ==
    /\ videoTime < limit
    /\ videoTime' = videoTime + 1
    /\ UNCHANGED <<smoother, prevPosition, committedTarget, zoom, pan,
                   clampedEdges, lastVideoTime, frameCount, debugTrace, loopVars>>

VideoAdvance == VideoAdvanceTo(MaxTicks)

\* everything detect writes
detectVars == <<smoother, prevPosition, committedTarget, zoom, pan, clampedEdges,
                lastVideoTime, frameCount, debugTrace>>

\* loadModel resolves: landmarkerRef.current is set, setIsModelLoading(false)
ModelLoads ==
    /\ landmarker = "loading"
    /\ landmarker' = "ready"
    /\ zoomEffectDirty' = TRUE
    /\ UNCHANGED <<detectVars, videoTime, zoomEnabled, smoothingPreset, requestRef,
                   skipped>>

\* loadModel rejects: the catch logs the error, setIsModelLoading(false)
ModelFails ==
    /\ landmarker = "loading"
    /\ landmarker' = "failed"
    /\ zoomEffectDirty' = TRUE
    /\ UNCHANGED <<detectVars, videoTime, zoomEnabled, smoothingPreset, requestRef,
                   skipped>>

\* the host changes the enabled prop
SetZoomEnabled(b) ==
    /\ ~zoomEffectDirty
    /\ zoomEnabled # b
    /\ zoomEnabled' = b
    /\ zoomEffectDirty' = TRUE
    /\ UNCHANGED <<detectVars, videoTime, smoothingPreset, landmarker, requestRef,
                   skipped>>

\* the host changes the smoothingPreset prop
SetPreset(preset) ==
    /\ ~zoomEffectDirty
    /\ smoothingPreset # preset
    /\ smoothingPreset' = preset
    /\ zoomEffectDirty' = TRUE
    /\ UNCHANGED <<detectVars, videoTime, zoomEnabled, landmarker, requestRef,
                   skipped>>

\* mutant: the new smoother takes over the previous estimates
SwitchedSmootherKeeps(s, preset) ==
    IF s.preset # preset THEN [s EXCEPT !.preset = preset] ELSE s

\* the preset effect, run when smoothingPreset changed:
\* smootherRef.current = createSmoother(smoothingPreset); reset()
SwitchedSmoother(s, preset) ==
    IF s.preset # preset THEN createSmoother(preset) ELSE s

\* mutant: the detection effect starts the loop without a landmarker
LoopRunsUnguarded == zoomEnabled

\* the detection effect's guard:
\* if (!enabled || !landmarkerRef.current || !videoRef.current) return
LoopRuns == zoomEnabled /\ landmarker = "ready"

\* the effects after a render in which a dependency changed: the preset
\* effect, then the detection effect's cleanup (cancelAnimationFrame) and
\* its body, which ends by calling detect
ZoomEffect ==
    /\ zoomEffectDirty
    /\ zoomEffectDirty' = FALSE
    /\ smoother' = SwitchedSmoother(smoother, smoothingPreset)
    /\ requestRef' = LoopRuns
    /\ UNCHANGED <<prevPosition, committedTarget, zoom, pan, clampedEdges,
                   lastVideoTime, videoTime, frameCount, debugTrace, zoomEnabled,
                   smoothingPreset, landmarker, skipped>>

ZoomStart(presets) ==
    /\ smoother \in {createSmoother(pr) : pr \in presets}
    /\ prevPosition = [x |-> 0, y |-> 0, zoom |-> 1 * Scale]
    /\ committedTarget = DefaultTarget
    /\ zoom = 1 * Scale
    /\ pan = [x |-> 0, y |-> 0]
    /\ clampedEdges = [left |-> FALSE, right |-> FALSE, top |-> FALSE, bottom |-> FALSE]
    /\ lastVideoTime = -1
    /\ videoTime = 0
    /\ frameCount = 0
    /\ debugTrace = << >>
    /\ zoomEnabled = TRUE
    /\ smoothingPreset = smoother.preset
    /\ landmarker = "loading"
    /\ zoomEffectDirty = FALSE
    /\ requestRef = FALSE
    /\ skipped = FALSE

ZoomInit == ZoomStart(Presets)

ZoomIdle == ZoomStart({"ema"})

\* ------------------------------------------------------------------------
\* clampNormalizedPan as a function of its inputs
\* ------------------------------------------------------------------------
PanInputs == {-600, -480, -360, -300, -120, 0, 120, 240, 300, 360, 480, 600}

\* zooms 1, 1.25, 5/3, 2, 2.5, 3, 4: their maxPan is exact in units of 1/Scale
ZoomInputs == {1200, 1500, 2000, 2400, 3000, 3600, 4800}

NoResult == [pan |-> [x |-> 0, y |-> 0],
             clampedEdges |-> [left |-> FALSE, right |-> FALSE,
                               top |-> FALSE, bottom |-> FALSE]]

ClampInit ==
    /\ cPan \in [x : PanInputs, y : PanInputs]
    /\ cZoom \in ZoomInputs
    /\ cStage = "input"
    /\ cRes = NoResult
    /\ cRes2 = NoResult

ClampIdle ==
    /\ cPan = [x |-> 0, y |-> 0]
    /\ cZoom = 1 * Scale
    /\ cStage = "input"
    /\ cRes = NoResult
    /\ cRes2 = NoResult

ClampOnce ==
    /\ cStage = "input"
    /\ cRes' = clampNormalizedPan(cPan, cZoom)
    /\ cStage' = "once"
    /\ UNCHANGED <<cPan, cZoom, cRes2>>

ClampTwice ==
    /\ cStage = "once"
    /\ cRes2' = clampNormalizedPan(cRes.pan, cZoom)
    /\ cStage' = "twice"
    /\ UNCHANGED <<cPan, cZoom, cRes>>

\* ------------------------------------------------------------------------
\* DiskBufferService
\* ------------------------------------------------------------------------
\* order of the "timestamp" index: by timestamp, then by primary key
IndexBefore(a, b) ==
    \/ a.timestamp < b.timestamp
    \/ a.timestamp = b.timestamp /\ a.id < b.id

RECURSIVE KeyOrder(_)
\* store.getAll(): the chunks in primary-key order
KeyOrder(chunks) ==
    IF chunks = {} THEN << >>
    ELSE LET first == CHOOSE c \in chunks : \A d \in chunks : c.id <= d.id
         IN  <<first>> \o KeyOrder(chunks \ {first})

RECURSIVE IndexOrder(_)
\* index.getAll(): the chunks in the order of the "timestamp" index
IndexOrder(chunks) ==
    IF chunks = {} THEN << >>
    ELSE LET first == CHOOSE c \in chunks :
                          \A d \in chunks \ {c} : IndexBefore(c, d)
         IN  <<first>> \o IndexOrder(chunks \ {first})

\* mutant: reads the object store instead of its timestamp index
ChunksById(chunks) == KeyOrder(chunks)

\* getAllChunks: index.getAll() on the "timestamp" index
getAllChunks(chunks) == IndexOrder(chunks)

\* store.add(chunk): the key generator assigns the id
AddChunk(chunks, id, ts) == chunks \cup {[id |-> id, timestamp |-> ts]}

\* mutant: slices the newest chunks instead of the oldest
ToDeleteNewest(all, keepCount) ==
    IF Len(all) <= keepCount THEN {}
    ELSE {all[i].id : i \in (keepCount + 1)..Len(all)}

\* mutant: keeps one chunk more than keepCount
ToDeleteKeepExtra(all, keepCount) ==
    IF Len(all) <= keepCount + 1 THEN {}
    ELSE {all[i].id : i \in 1..(Len(all) - keepCount - 1)}

\* pruneOldChunks: ids of chunks.slice(0, chunks.length - keepCount);
\* nothing when chunks.length <= keepCount
ToDelete(all, keepCount) ==
    IF Len(all) <= keepCount THEN {}
    ELSE {all[i].id : i \in 1..(Len(all) - keepCount)}

\* store.delete(id) for every id of toDelete
DeleteChunks(chunks, ids) == {c \in chunks : c.id \notin ids}

StoreInit ==
    /\ db = {}
    /\ nextId = 1
    /\ lastCall = [op |-> "none", keep |-> 0]
    /\ dbOpens = TRUE

\* the store of a browsing context in which indexedDB.open fails: every
\* call of getDB rejects with "Failed to open IndexedDB"
StoreClosed ==
    /\ db = {}
    /\ nextId = 1
    /\ lastCall = [op |-> "none", keep |-> 0]
    /\ dbOpens = FALSE

saveChunk(ts) ==
    /\ dbOpens
    /\ nextId <= MaxSaves
    /\ db' = AddChunk(db, nextId, ts)
    /\ nextId' = nextId + 1
    /\ UNCHANGED dbOpens

pruneOldChunks(keepCount) ==
    /\ db' = DeleteChunks(db, ToDelete(getAllChunks(db), keepCount))
    /\ UNCHANGED <<nextId, dbOpens>>

clear ==
    /\ db' = {}
    /\ UNCHANGED <<nextId, dbOpens>>

\* new Blob(chunks.map(chunk => chunk.blob)): the blobs in the order read
BlobOf(all) == [i \in 1..Len(all) |-> all[i].id]

\* onProgress?.(0.5) before and onProgress?.(1) after the concatenation;
\* neither when the store is empty
ProgressOf(all) == IF Len(all) = 0 THEN << >> ELSE <<Scale \div 2, 1 * Scale>>

\* exportVideo(onProgress)
exportVideo ==
    /\ exportBlob' = BlobOf(getAllChunks(db))
    /\ exportProgress' = ProgressOf(getAllChunks(db))
    /\ UNCHANGED <<db, nextId, dbOpens>>

\* ------------------------------------------------------------------------
\* useDiskTimeMachine: recording
\* ------------------------------------------------------------------------
NoCleanup == [kind |-> "none", timer |-> 0]

\* the indexes a caller passes to seekToChunk: below, inside and past the list
SeekInputs == (0 - 1)..(MaxClock + 1)

NoSeek == 0 - 2

HookInit ==
    /\ enabled = TRUE
    /\ unmounted = FALSE
    /\ videoReady = FALSE
    /\ clock = 0
    /\ isRecording = FALSE
    /\ recordingError = "null"
    /\ mediaRecorderRef = 0
    /\ recording = {}
    /\ recordingIntervalRef = 0
    /\ rotationTimers = {}
    /\ pollTimers = {}
    /\ polls = 0
    /\ effectDirty = TRUE
    /\ cleanup = NoCleanup
    /\ chains = {}
    /\ chunkCount = 0
    /\ saveSeq = 0
    /\ prunedSeq = 0
    /\ failedTs = 0
    /\ isReplaying = FALSE
    /\ isPlaying = FALSE
    /\ currentChunkIndex = 0
    /\ chunksRef = << >>
    /\ enterPc = "idle"
    /\ enterEmptyAtCall = FALSE
    /\ exitedReplay = FALSE
    /\ playbackFailed = FALSE
    /\ nextsLeft = -1
    /\ seekArg = NoSeek

\* the recorder-related values a handler threads through its calls
RecState == [ref |-> mediaRecorderRef, recording |-> recording, chains |-> chains,
             clock |-> clock, error |-> recordingError]

\* recorder.onstop of the recorder started at ts: a finalize chain begins
NewChain(ts) == [ts |-> ts, pc |-> "preview", toDelete |-> {}, readSeq |-> 0]

\* stopRecordingChunk
StopChunk(r) ==
    IF r.ref # 0 /\ r.ref \in r.recording
    THEN [r EXCEPT !.recording = @ \ {r.ref},
                   !.chains = @ \cup {NewChain(r.ref)},
                   !.ref = 0]
    ELSE r

\* startRecordingChunk: a new MediaRecorder, started at Date.now()
StartChunk(r) ==
    [r EXCEPT !.clock = @ + 1,
              !.recording = @ \cup {r.clock + 1},
              !.ref = r.clock + 1,
              !.error = "null"]

\* setRecordingError("Recording failed - check camera connection")
RecordingFailed == "Recording failed - check camera connection"

\* how a call of startRecordingChunk ends: the recorder starts, or
\* recorder.start() throws, or video.srcObject is missing (early return)
StartOutcomes == {"ok", "throws", "noStream"}

StartChunkAs(r, outcome) ==
    IF outcome = "ok" THEN StartChunk(r)
    ELSE IF outcome = "throws" THEN [r EXCEPT !.error = RecordingFailed]
    ELSE r

SetRecState(r) ==
    /\ mediaRecorderRef' = r.ref
    /\ recording' = r.recording
    /\ chains' = r.chains
    /\ clock' = r.clock
    /\ recordingError' = r.error

\* setInterval returns an id no live timer or held reference uses
FreeTimers == (1..MaxTimers) \ (rotationTimers \cup pollTimers
                                  \cup {cleanup.timer, recordingIntervalRef})

NewTimer == CHOOSE t \in FreeTimers : \A u \in FreeTimers : t <= u

\* the host changes the enabled prop
SetEnabled(b) ==
    /\ ~unmounted
    /\ ~effectDirty
    /\ enabled # b
    /\ enabled' = b
    /\ effectDirty' = TRUE
    /\ UNCHANGED <<videoReady, clock, unmounted, isRecording, recordingError, mediaRecorderRef,
                   recording, recordingIntervalRef, rotationTimers, pollTimers, polls,
                   cleanup, chainVars, replayVars, storeVars>>

\* the host passes a new chunkDurationMs or maxChunks: a dependency of the
\* recording-loop effect other than enabled and isReplaying changes
DepsChange ==
    /\ ~unmounted
    /\ ~effectDirty
    /\ effectDirty' = TRUE
    /\ UNCHANGED <<envVars, isRecording, recordingError, mediaRecorderRef, recording,
                   recordingIntervalRef, rotationTimers, pollTimers, polls,
                   cleanup, chainVars, replayVars, storeVars>>

\* the camera stream becomes playable: readyState reaches 3
VideoBecomesReady ==
    /\ ~videoReady
    /\ videoReady' = TRUE
    /\ UNCHANGED <<enabled, clock, unmounted, recVars, chainVars, replayVars, storeVars>>

\* mutant: the effect stops recording only when disabled
ShouldStopDisabledOnly == ~enabled

\* the effect's first test: if (!enabled || isReplaying)
ShouldStop == ~enabled \/ isReplaying

\* cleanup returned by the previous run of the recording-loop effect
AfterCleanup(r) == IF cleanup.kind = "full" THEN StopChunk(r) ELSE r

RotationAfterCleanup ==
    IF cleanup.kind = "full" /\ recordingIntervalRef # 0
    THEN rotationTimers \ {recordingIntervalRef} ELSE rotationTimers

IntervalRefAfterCleanup ==
    IF cleanup.kind = "full" THEN 0 ELSE recordingIntervalRef

PollAfterCleanup ==
    IF cleanup.kind = "poll" THEN pollTimers \ {cleanup.timer} ELSE pollTimers

\* the recording-loop effect, disabled or replaying: stop and clear
EffectStop ==
    /\ ~unmounted
    /\ effectDirty
    /\ ShouldStop
    /\ SetRecState(StopChunk(AfterCleanup(RecState)))
    /\ rotationTimers' = RotationAfterCleanup \ {IntervalRefAfterCleanup}
    /\ recordingIntervalRef' = 0
    /\ pollTimers' = PollAfterCleanup
    /\ isRecording' = FALSE
    /\ cleanup' = NoCleanup
    /\ polls' = 0
    /\ effectDirty' = FALSE
    /\ UNCHANGED <<enabled, videoReady, unmounted, chunkCount, failedTs, saveSeq, prunedSeq,
                   replayVars, storeVars>>

\* the recording-loop effect, video not ready: poll readyState every 100 ms
EffectWait ==
    /\ ~unmounted
    /\ effectDirty
    /\ ~ShouldStop
    /\ ~videoReady
    /\ FreeTimers # {}
    /\ SetRecState(AfterCleanup(RecState))
    /\ rotationTimers' = RotationAfterCleanup
    /\ recordingIntervalRef' = IntervalRefAfterCleanup
    /\ pollTimers' = PollAfterCleanup \cup {NewTimer}
    /\ cleanup' = [kind |-> "poll", timer |-> NewTimer]
    /\ polls' = 0
    /\ effectDirty' = FALSE
    /\ UNCHANGED <<enabled, videoReady, unmounted, isRecording, chunkCount, failedTs, saveSeq, prunedSeq,
                   replayVars, storeVars>>

\* the recording-loop effect, video ready: start recording and the rotation
EffectStartAs(outcome) ==
    /\ ~unmounted
    /\ effectDirty
    /\ ~ShouldStop
    /\ videoReady
    /\ FreeTimers # {}
    /\ clock < MaxClock
    /\ SetRecState(StartChunkAs(AfterCleanup(RecState), outcome))
    /\ isRecording' = TRUE
    /\ rotationTimers' = RotationAfterCleanup \cup {NewTimer}
    /\ recordingIntervalRef' = NewTimer
    /\ pollTimers' = PollAfterCleanup
    /\ cleanup' = [kind |-> "full", timer |-> 0]
    /\ polls' = 0
    /\ effectDirty' = FALSE
    /\ UNCHANGED <<enabled, videoReady, unmounted, chunkCount, failedTs, saveSeq, prunedSeq,
                   replayVars, storeVars>>

EffectStart == EffectStartAs("ok")

\* the owner unmounts: React runs the cleanup the last run of the effect
\* returned, and nothing else
Unmount ==
    /\ ~unmounted
    /\ ~effectDirty
    /\ unmounted' = TRUE
    /\ SetRecState(AfterCleanup(RecState))
    /\ rotationTimers' = RotationAfterCleanup
    /\ recordingIntervalRef' = IntervalRefAfterCleanup
    /\ pollTimers' = PollAfterCleanup
    /\ cleanup' = NoCleanup
    /\ UNCHANGED <<enabled, videoReady, isRecording, polls, effectDirty, chunkCount,
                   failedTs, saveSeq, prunedSeq, replayVars, storeVars>>

\* the checkReady interval fires
PollFireAs(t, outcome) ==
    /\ t \in pollTimers
    /\ videoReady
    /\ FreeTimers # {}
    /\ clock < MaxClock
    /\ polls' = 0
    /\ pollTimers' = pollTimers \ {t}
    /\ SetRecState(StartChunkAs(RecState, outcome))
    /\ isRecording' = TRUE
    /\ rotationTimers' = rotationTimers \cup {NewTimer}
    /\ recordingIntervalRef' = NewTimer
    /\ UNCHANGED <<enabled, videoReady, unmounted, effectDirty, cleanup, chunkCount, failedTs, saveSeq,
                   prunedSeq, replayVars, storeVars>>

PollFire(t) == PollFireAs(t, "ok")

\* the checkReady interval fires while the video is not ready: nothing is
\* done, the interval stays
PollIdle(t) ==
    /\ t \in pollTimers
    /\ ~videoReady
    /\ polls < MaxPolls
    /\ polls' = polls + 1
    /\ UNCHANGED <<envVars, isRecording, recordingError, mediaRecorderRef, recording,
                   recordingIntervalRef, rotationTimers, pollTimers, effectDirty,
                   cleanup, chainVars, replayVars, storeVars>>

\* a rotation interval fires: stopRecordingChunk(); startRecordingChunk()
RotationFireAs(t, outcome) ==
    /\ t \in rotationTimers
    /\ clock < MaxClock
    /\ SetRecState(StartChunkAs(StopChunk(RecState), outcome))
    /\ UNCHANGED <<enabled, videoReady, unmounted, isRecording, recordingIntervalRef,
                   rotationTimers, pollTimers, polls, effectDirty, cleanup,
                   chunkCount, failedTs, saveSeq, prunedSeq, replayVars, storeVars>>

RotationFire(t) == RotationFireAs(t, "ok")

\* ------------------------------------------------------------------------
\* useDiskTimeMachine: recorder.onstop, the finalize chain of one chunk
\* ------------------------------------------------------------------------
ChainAt(c, pc) == (chains \ {c}) \cup {[c EXCEPT !.pc = pc]}

\* if (chunks.length === 0) return: the recorder delivered no data
ChainEmpty(c) ==
    /\ c \in chains
    /\ c.pc = "preview"
    /\ chains' = chains \ {c}
    /\ UNCHANGED <<envVars, isRecording, recordingError, mediaRecorderRef, recording,
                   recordingIntervalRef, rotationTimers, pollTimers, polls,
                   effectDirty, cleanup, chunkCount, saveSeq, prunedSeq, failedTs,
                   replayVars, storeVars>>

\* const preview = await extractPreviewFrame(blob)
ChainPreview(c) ==
    /\ c \in chains
    /\ c.pc = "preview"
    /\ chains' = ChainAt(c, "save")
    /\ UNCHANGED <<envVars, isRecording, recordingError, mediaRecorderRef, recording,
                   recordingIntervalRef, rotationTimers, pollTimers, polls,
                   effectDirty, cleanup, chunkCount, saveSeq, prunedSeq, failedTs,
                   replayVars, storeVars>>

\* mutant: a failure to persist ends the recording
ChainFailStops(c) ==
    /\ c \in chains
    /\ c.pc \in {"preview", "save", "pruneRead", "pruneDelete"}
    /\ chains' = chains \ {c}
    /\ failedTs' = Max2(failedTs, c.ts)
    /\ isRecording' = FALSE
    /\ mediaRecorderRef' = 0
    /\ recording' = {}
    /\ recordingIntervalRef' = 0
    /\ rotationTimers' = {}
    /\ UNCHANGED <<envVars, recordingError, pollTimers, polls,
                   effectDirty, cleanup, chunkCount, saveSeq, prunedSeq,
                   replayVars, storeVars>>

\* extractPreviewFrame, saveChunk or pruneOldChunks rejects: the catch logs
\* the error with console.error; a rejected transaction writes nothing
ChainFail(c) ==
    /\ c \in chains
    /\ c.pc \in {"preview", "save", "pruneRead", "pruneDelete"}
    /\ chains' = chains \ {c}
    /\ failedTs' = Max2(failedTs, c.ts)
    /\ UNCHANGED <<envVars, isRecording, recordingError, mediaRecorderRef, recording,
                   recordingIntervalRef, rotationTimers, pollTimers, polls,
                   effectDirty, cleanup, chunkCount, saveSeq, prunedSeq,
                   replayVars, storeVars>>

\* mutant: the chain goes on to the refresh without pruning
AfterSaveNoPrune == "refresh"

\* what follows the save in the chain: await pruneOldChunks(maxChunks)
AfterSave == "pruneRead"

\* await diskBufferService.saveChunk({..., timestamp: startTimestamp})
ChainSave(c) ==
    /\ c \in chains
    /\ c.pc = "save"
    /\ saveChunk(c.ts)
    /\ UNCHANGED lastCall
    /\ saveSeq' = saveSeq + 1
    /\ chains' = ChainAt(c, AfterSave)
    /\ UNCHANGED <<envVars, isRecording, recordingError, mediaRecorderRef, recording,
                   recordingIntervalRef, rotationTimers, pollTimers, polls,
                   effectDirty, cleanup, chunkCount, failedTs, prunedSeq, replayVars>>

\* pruneOldChunks(maxChunks), its read: await this.getAllChunks()
ChainPruneRead(c) ==
    /\ c \in chains
    /\ c.pc = "pruneRead"
    /\ \E toDelete \in {ToDelete(getAllChunks(db), maxChunks)} :
          IF toDelete = {}
          THEN /\ chains' = ChainAt(c, "refresh")
               /\ prunedSeq' = saveSeq
          ELSE /\ chains' = (chains \ {c}) \cup
                     {[c EXCEPT !.pc = "pruneDelete", !.toDelete = toDelete,
                                !.readSeq = saveSeq]}
               /\ UNCHANGED prunedSeq
    /\ UNCHANGED <<envVars, isRecording, recordingError, mediaRecorderRef, recording,
                   recordingIntervalRef, rotationTimers, pollTimers, polls,
                   effectDirty, cleanup, chunkCount, failedTs, saveSeq, replayVars, storeVars>>

\* pruneOldChunks(maxChunks), its readwrite transaction: store.delete(id)
ChainPruneDelete(c) ==
    /\ c \in chains
    /\ c.pc = "pruneDelete"
    /\ db' = DeleteChunks(db, c.toDelete)
    /\ prunedSeq' = Max2(prunedSeq, c.readSeq)
    /\ chains' = (chains \ {c}) \cup
          {[c EXCEPT !.pc = "refresh", !.toDelete = {}, !.readSeq = 0]}
    /\ UNCHANGED <<envVars, isRecording, recordingError, mediaRecorderRef, recording,
                   recordingIntervalRef, rotationTimers, pollTimers, polls,
                   effectDirty, cleanup, chunkCount, failedTs, saveSeq, replayVars, nextId,
                   lastCall, dbOpens>>

\* setChunkCount((await getPreviews()).length)
ChainRefresh(c) ==
    /\ c \in chains
    /\ c.pc = "refresh"
    /\ chunkCount' = Cardinality(db)
    /\ chains' = ChainAt(c, "cache")
    /\ UNCHANGED <<envVars, isRecording, recordingError, mediaRecorderRef, recording,
                   recordingIntervalRef, rotationTimers, pollTimers, polls,
                   effectDirty, cleanup, saveSeq, prunedSeq, failedTs, replayVars,
                   storeVars>>

\* chunksRef.current = await diskBufferService.getAllChunks()
ChainCache(c) ==
    /\ c \in chains
    /\ c.pc = "cache"
    /\ chunksRef' = getAllChunks(db)
    /\ chains' = chains \ {c}
    /\ UNCHANGED <<envVars, isRecording, recordingError, mediaRecorderRef, recording,
                   recordingIntervalRef, rotationTimers, pollTimers, polls,
                   effectDirty, cleanup, chunkCount, failedTs, saveSeq, prunedSeq,
                   isReplaying, isPlaying, currentChunkIndex, enterPc,
                   enterEmptyAtCall, exitedReplay, playbackFailed, nextsLeft, seekArg,
                   storeVars>>

\* a caller of the service on its own records the call it made
Called(op, keep) == lastCall' = [op |-> op, keep |-> keep]

\* the store is cleared from outside the hook (diskBufferService.clear())
HostClear ==
    /\ db # {}
    /\ clear
    /\ UNCHANGED <<lastCall, hookVars>>

\* ------------------------------------------------------------------------
\* useDiskTimeMachine: replay
\* ------------------------------------------------------------------------
\* enterReplay up to its await; the Rewind button is shown while not replaying
EnterCall ==
    /\ ~unmounted
    /\ ~isReplaying
    /\ enterPc = "idle"
    /\ enterEmptyAtCall' = (db = {})
    /\ UNCHANGED <<exitedReplay, playbackFailed>>
    /\ enterPc' = IF chunkCount = 0 THEN "idle" ELSE "reading"
    /\ UNCHANGED <<envVars, recVars, chainVars, isReplaying, isPlaying,
                   currentChunkIndex, chunksRef, nextsLeft, seekArg, storeVars>>

\* enterReplay after getAllChunks() resolved
EnterComplete ==
    /\ ~unmounted
    /\ enterPc = "reading"
    /\ ~effectDirty
    /\ chunksRef' = getAllChunks(db)
    /\ isReplaying' = TRUE
    /\ isPlaying' = TRUE
    /\ currentChunkIndex' = 0
    /\ effectDirty' = ~isReplaying
    /\ enterPc' = "idle"
    /\ nextsLeft' = Len(getAllChunks(db))
    /\ seekArg' = NoSeek
    /\ exitedReplay' = FALSE
    /\ playbackFailed' = FALSE
    /\ UNCHANGED <<envVars, isRecording, recordingError, mediaRecorderRef, recording,
                   recordingIntervalRef, rotationTimers, pollTimers, polls,
                   cleanup, chainVars, enterEmptyAtCall, storeVars>>

\* mutant: exit only pauses the session
exitReplayPausesOnly ==
    /\ ~unmounted
    /\ isReplaying
    /\ ~effectDirty
    /\ isPlaying' = FALSE
    /\ exitedReplay' = TRUE
    /\ playbackFailed' = FALSE
    /\ UNCHANGED <<envVars, recVars, chainVars, isReplaying, currentChunkIndex,
                   chunksRef, enterPc, enterEmptyAtCall, nextsLeft, seekArg,
                   storeVars>>

\* exitReplay; the replay controls are shown while replaying
exitReplay ==
    /\ ~unmounted
    /\ isReplaying
    /\ ~effectDirty
    /\ isReplaying' = FALSE
    /\ isPlaying' = FALSE
    /\ effectDirty' = TRUE
    /\ nextsLeft' = -1
    /\ seekArg' = NoSeek
    /\ exitedReplay' = TRUE
    /\ playbackFailed' = FALSE
    /\ UNCHANGED <<envVars, isRecording, recordingError, mediaRecorderRef, recording,
                   recordingIntervalRef, rotationTimers, pollTimers, polls,
                   cleanup, chainVars, currentChunkIndex, chunksRef, enterPc,
                   enterEmptyAtCall, storeVars>>

\* play / pause
SetPlaying(b) ==
    /\ isReplaying
    /\ isPlaying # b
    /\ isPlaying' = b
    /\ playbackFailed' = FALSE
    /\ UNCHANGED <<envVars, recVars, chainVars, isReplaying, currentChunkIndex,
                   chunksRef, enterPc, enterEmptyAtCall, exitedReplay, nextsLeft,
                   seekArg, storeVars>>

\* nextChunk's updater, also used by video.onended
NextIndex(prev) == IF prev + 1 >= Len(chunksRef) THEN 0 ELSE prev + 1

\* prevChunk's updater
PrevIndex(prev) == IF prev - 1 < 0 THEN Len(chunksRef) - 1 ELSE prev - 1

\* mutant: only the upper end is clamped
ClampedIndexNoFloor(index) == Min2(index, Len(chunksRef) - 1)

\* seekToChunk's clamp
ClampedIndex(index) == Max2(0, Min2(index, Len(chunksRef) - 1))

\* setCurrentChunkIndex from a replay control, shown while replaying
Navigate(index, nexts, arg) ==
    /\ isReplaying
    /\ currentChunkIndex' = index
    /\ nextsLeft' = nexts
    /\ seekArg' = arg
    /\ playbackFailed' = FALSE
    /\ UNCHANGED <<envVars, recVars, chainVars, isReplaying, isPlaying, chunksRef,
                   enterPc, enterEmptyAtCall, exitedReplay, storeVars>>

nextChunk ==
    Navigate(NextIndex(currentChunkIndex),
             IF nextsLeft > 0 THEN nextsLeft - 1 ELSE -1, NoSeek)

prevChunk == Navigate(PrevIndex(currentChunkIndex), -1, NoSeek)

seekToChunk(index) == Navigate(ClampedIndex(index), -1, index)

\* video.onended of the chunk that is playing
AutoAdvance ==
    /\ isPlaying
    /\ currentChunkIndex \in 0..(Len(chunksRef) - 1)
    /\ Navigate(NextIndex(currentChunkIndex), -1, NoSeek)

\* video.play() of the chunk that is loaded rejects: .catch(console.error)
PlayRejected ==
    /\ ~unmounted
    /\ isReplaying
    /\ isPlaying
    /\ currentChunkIndex \in 0..(Len(chunksRef) - 1)
    /\ ~playbackFailed
    /\ playbackFailed' = TRUE
    /\ UNCHANGED <<envVars, recVars, chainVars, isReplaying, isPlaying,
                   currentChunkIndex, chunksRef, enterPc, enterEmptyAtCall,
                   exitedReplay, nextsLeft, seekArg, storeVars>>

\* ------------------------------------------------------------------------
\* useDiskTimeMachine: saveVideo
\* ------------------------------------------------------------------------
ExportFailed == "Export failed - please try again"

ExportInit ==
    /\ isExporting = FALSE
    /\ saveVideoSees = FALSE
    /\ exports = 0
    /\ exportCalls = 0
    /\ downloads = 0

\* everything of the hook that saveVideo does not write
exportFrame == <<envVars, isRecording, mediaRecorderRef, recording,
                 recordingIntervalRef, rotationTimers, pollTimers, polls, effectDirty,
                 cleanup, chainVars, replayVars>>

\* saveVideo up to its await: if (isExporting) return; setIsExporting(true)
SaveVideoCall ==
    /\ exportCalls < MaxExports
    /\ ~saveVideoSees
    /\ isExporting' = TRUE
    /\ exports' = exports + 1
    /\ exportCalls' = exportCalls + 1
    /\ UNCHANGED <<saveVideoSees, downloads, recordingError, exportFrame, storeVars>>

\* a render: useCallback makes a saveVideo that closes over the new isExporting
ExportRender ==
    /\ saveVideoSees # isExporting
    /\ saveVideoSees' = isExporting
    /\ UNCHANGED <<isExporting, exports, exportCalls, downloads, recordingError,
                   exportFrame, storeVars>>

\* mutant: only the catch block resets isExporting
ExportingAfterCatchOnly(outcome) == outcome # "error"

\* isExporting after saveVideo settled: the early return and the finally block
ExportingAfter(outcome) == FALSE

\* exportVideo resolved: an empty blob returns early, any other is downloaded
ExportResolve ==
    /\ exports > 0
    /\ exports' = exports - 1
    /\ IF db = {}
       THEN /\ isExporting' = ExportingAfter("empty")
            /\ UNCHANGED downloads
       ELSE /\ isExporting' = ExportingAfter("ok")
            /\ downloads' = downloads + 1
    /\ UNCHANGED <<saveVideoSees, exportCalls, recordingError, exportFrame, storeVars>>

\* exportVideo rejected: the catch block reports it through recordingError
ExportReject ==
    /\ exports > 0
    /\ exports' = exports - 1
    /\ recordingError' = ExportFailed
    /\ isExporting' = ExportingAfter("error")
    /\ UNCHANGED <<saveVideoSees, exportCalls, downloads, exportFrame, storeVars>>

vars == <<zoomVars, clampVars, storeVars, hookVars, exportVars, filterVars>>

HookNext ==
    \/ \E b \in BOOLEAN : SetEnabled(b) /\ UNCHANGED <<zoomVars, clampVars, exportVars, filterVars>>
    \/ VideoBecomesReady /\ UNCHANGED <<zoomVars, clampVars, exportVars, filterVars>>
    \/ EffectStop /\ UNCHANGED <<zoomVars, clampVars, exportVars, filterVars>>
    \/ EffectWait /\ UNCHANGED <<zoomVars, clampVars, exportVars, filterVars>>
    \/ EffectStart /\ UNCHANGED <<zoomVars, clampVars, exportVars, filterVars>>
    \/ \E t \in 1..MaxTimers : PollFire(t) /\ UNCHANGED <<zoomVars, clampVars, exportVars, filterVars>>
    \/ \E t \in 1..MaxTimers : PollIdle(t) /\ UNCHANGED <<zoomVars, clampVars, exportVars, filterVars>>
    \/ \E t \in 1..MaxTimers : RotationFire(t) /\ UNCHANGED <<zoomVars, clampVars, exportVars, filterVars>>
    \/ \E c \in chains : ChainEmpty(c) /\ UNCHANGED <<zoomVars, clampVars, exportVars, filterVars>>
    \/ \E c \in chains : ChainPreview(c) /\ UNCHANGED <<zoomVars, clampVars, exportVars, filterVars>>
    \/ \E c \in chains : ChainFail(c) /\ UNCHANGED <<zoomVars, clampVars, exportVars, filterVars>>
    \/ \E c \in chains : ChainSave(c) /\ UNCHANGED <<zoomVars, clampVars, exportVars, filterVars>>
    \/ \E c \in chains : ChainPruneRead(c) /\ UNCHANGED <<zoomVars, clampVars, exportVars, filterVars>>
    \/ \E c \in chains : ChainPruneDelete(c) /\ UNCHANGED <<zoomVars, clampVars, exportVars, filterVars>>
    \/ \E c \in chains : ChainRefresh(c) /\ UNCHANGED <<zoomVars, clampVars, exportVars, filterVars>>
    \/ \E c \in chains : ChainCache(c) /\ UNCHANGED <<zoomVars, clampVars, exportVars, filterVars>>
    \/ HostClear /\ UNCHANGED <<zoomVars, clampVars, exportVars, filterVars>>
    \/ EnterCall /\ UNCHANGED <<zoomVars, clampVars, exportVars, filterVars>>
    \/ EnterComplete /\ UNCHANGED <<zoomVars, clampVars, exportVars, filterVars>>
    \/ exitReplay /\ UNCHANGED <<zoomVars, clampVars, exportVars, filterVars>>
    \/ \E b \in BOOLEAN : SetPlaying(b) /\ UNCHANGED <<zoomVars, clampVars, exportVars, filterVars>>
    \/ nextChunk /\ UNCHANGED <<zoomVars, clampVars, exportVars, filterVars>>
    \/ prevChunk /\ UNCHANGED <<zoomVars, clampVars, exportVars, filterVars>>
    \/ \E i \in SeekInputs : seekToChunk(i) /\ UNCHANGED <<zoomVars, clampVars, exportVars, filterVars>>
    \/ AutoAdvance /\ UNCHANGED <<zoomVars, clampVars, exportVars, filterVars>>

InitHook == HookInit /\ StoreInit /\ ZoomIdle /\ ClampIdle /\ ExportInit /\ FilterIdle

SpecHook == InitHook /\ [][HookNext]_vars

\* the recording loop when startRecordingChunk may fail
StartFailNext ==
    \/ \E b \in BOOLEAN : SetEnabled(b) /\ UNCHANGED <<zoomVars, clampVars, exportVars, filterVars>>
    \/ VideoBecomesReady /\ UNCHANGED <<zoomVars, clampVars, exportVars, filterVars>>
    \/ EffectStop /\ UNCHANGED <<zoomVars, clampVars, exportVars, filterVars>>
    \/ EffectWait /\ UNCHANGED <<zoomVars, clampVars, exportVars, filterVars>>
    \/ \E o \in StartOutcomes : EffectStartAs(o) /\ UNCHANGED <<zoomVars, clampVars, exportVars, filterVars>>
    \/ \E t \in 1..MaxTimers, o \in StartOutcomes : PollFireAs(t, o) /\ UNCHANGED <<zoomVars, clampVars, exportVars, filterVars>>
    \/ \E t \in 1..MaxTimers : PollIdle(t) /\ UNCHANGED <<zoomVars, clampVars, exportVars, filterVars>>
    \/ \E t \in 1..MaxTimers, o \in StartOutcomes : RotationFireAs(t, o) /\ UNCHANGED <<zoomVars, clampVars, exportVars, filterVars>>
    \/ \E c \in chains : ChainEmpty(c) /\ UNCHANGED <<zoomVars, clampVars, exportVars, filterVars>>
    \/ \E c \in chains : ChainPreview(c) /\ UNCHANGED <<zoomVars, clampVars, exportVars, filterVars>>
    \/ \E c \in chains : ChainSave(c) /\ UNCHANGED <<zoomVars, clampVars, exportVars, filterVars>>
    \/ \E c \in chains : ChainPruneRead(c) /\ UNCHANGED <<zoomVars, clampVars, exportVars, filterVars>>
    \/ \E c \in chains : ChainPruneDelete(c) /\ UNCHANGED <<zoomVars, clampVars, exportVars, filterVars>>
    \/ \E c \in chains : ChainRefresh(c) /\ UNCHANGED <<zoomVars, clampVars, exportVars, filterVars>>
    \/ \E c \in chains : ChainCache(c) /\ UNCHANGED <<zoomVars, clampVars, exportVars, filterVars>>

InitStartFail == HookInit /\ StoreInit /\ ZoomIdle /\ ClampIdle /\ ExportInit /\ FilterIdle

SpecStartFail == InitStartFail /\ [][StartFailNext]_vars

\* the recording loop when its other dependencies change too
DepsNext ==
    \/ \E b \in BOOLEAN : SetEnabled(b) /\ UNCHANGED <<zoomVars, clampVars, exportVars, filterVars>>
    \/ DepsChange /\ UNCHANGED <<zoomVars, clampVars, exportVars, filterVars>>
    \/ VideoBecomesReady /\ UNCHANGED <<zoomVars, clampVars, exportVars, filterVars>>
    \/ EffectStop /\ UNCHANGED <<zoomVars, clampVars, exportVars, filterVars>>
    \/ EffectWait /\ UNCHANGED <<zoomVars, clampVars, exportVars, filterVars>>
    \/ EffectStart /\ UNCHANGED <<zoomVars, clampVars, exportVars, filterVars>>
    \/ \E t \in 1..MaxTimers : PollFire(t) /\ UNCHANGED <<zoomVars, clampVars, exportVars, filterVars>>
    \/ \E t \in 1..MaxTimers : PollIdle(t) /\ UNCHANGED <<zoomVars, clampVars, exportVars, filterVars>>
    \/ \E t \in 1..MaxTimers : RotationFire(t) /\ UNCHANGED <<zoomVars, clampVars, exportVars, filterVars>>
    \/ \E c \in chains : ChainEmpty(c) /\ UNCHANGED <<zoomVars, clampVars, exportVars, filterVars>>
    \/ \E c \in chains : ChainPreview(c) /\ UNCHANGED <<zoomVars, clampVars, exportVars, filterVars>>
    \/ \E c \in chains : ChainSave(c) /\ UNCHANGED <<zoomVars, clampVars, exportVars, filterVars>>
    \/ \E c \in chains : ChainPruneRead(c) /\ UNCHANGED <<zoomVars, clampVars, exportVars, filterVars>>
    \/ \E c \in chains : ChainPruneDelete(c) /\ UNCHANGED <<zoomVars, clampVars, exportVars, filterVars>>
    \/ \E c \in chains : ChainRefresh(c) /\ UNCHANGED <<zoomVars, clampVars, exportVars, filterVars>>
    \/ \E c \in chains : ChainCache(c) /\ UNCHANGED <<zoomVars, clampVars, exportVars, filterVars>>
    \/ EnterCall /\ UNCHANGED <<zoomVars, clampVars, exportVars, filterVars>>
    \/ EnterComplete /\ UNCHANGED <<zoomVars, clampVars, exportVars, filterVars>>
    \/ exitReplay /\ UNCHANGED <<zoomVars, clampVars, exportVars, filterVars>>

InitDeps == HookInit /\ StoreInit /\ ZoomIdle /\ ClampIdle /\ ExportInit /\ FilterIdle

SpecDeps == InitDeps /\ [][DepsNext]_vars

\* recording and replay when playing a chunk may fail
PlaybackNext ==
    \/ \E b \in BOOLEAN : SetEnabled(b) /\ UNCHANGED <<zoomVars, clampVars, exportVars, filterVars>>
    \/ VideoBecomesReady /\ UNCHANGED <<zoomVars, clampVars, exportVars, filterVars>>
    \/ EffectStop /\ UNCHANGED <<zoomVars, clampVars, exportVars, filterVars>>
    \/ EffectWait /\ UNCHANGED <<zoomVars, clampVars, exportVars, filterVars>>
    \/ EffectStart /\ UNCHANGED <<zoomVars, clampVars, exportVars, filterVars>>
    \/ \E t \in 1..MaxTimers : PollFire(t) /\ UNCHANGED <<zoomVars, clampVars, exportVars, filterVars>>
    \/ \E t \in 1..MaxTimers : PollIdle(t) /\ UNCHANGED <<zoomVars, clampVars, exportVars, filterVars>>
    \/ \E t \in 1..MaxTimers : RotationFire(t) /\ UNCHANGED <<zoomVars, clampVars, exportVars, filterVars>>
    \/ \E c \in chains : ChainEmpty(c) /\ UNCHANGED <<zoomVars, clampVars, exportVars, filterVars>>
    \/ \E c \in chains : ChainPreview(c) /\ UNCHANGED <<zoomVars, clampVars, exportVars, filterVars>>
    \/ \E c \in chains : ChainSave(c) /\ UNCHANGED <<zoomVars, clampVars, exportVars, filterVars>>
    \/ \E c \in chains : ChainPruneRead(c) /\ UNCHANGED <<zoomVars, clampVars, exportVars, filterVars>>
    \/ \E c \in chains : ChainPruneDelete(c) /\ UNCHANGED <<zoomVars, clampVars, exportVars, filterVars>>
    \/ \E c \in chains : ChainRefresh(c) /\ UNCHANGED <<zoomVars, clampVars, exportVars, filterVars>>
    \/ \E c \in chains : ChainCache(c) /\ UNCHANGED <<zoomVars, clampVars, exportVars, filterVars>>
    \/ EnterCall /\ UNCHANGED <<zoomVars, clampVars, exportVars, filterVars>>
    \/ EnterComplete /\ UNCHANGED <<zoomVars, clampVars, exportVars, filterVars>>
    \/ exitReplay /\ UNCHANGED <<zoomVars, clampVars, exportVars, filterVars>>
    \/ \E b \in BOOLEAN : SetPlaying(b) /\ UNCHANGED <<zoomVars, clampVars, exportVars, filterVars>>
    \/ nextChunk /\ UNCHANGED <<zoomVars, clampVars, exportVars, filterVars>>
    \/ prevChunk /\ UNCHANGED <<zoomVars, clampVars, exportVars, filterVars>>
    \/ \E i \in SeekInputs : seekToChunk(i) /\ UNCHANGED <<zoomVars, clampVars, exportVars, filterVars>>
    \/ AutoAdvance /\ UNCHANGED <<zoomVars, clampVars, exportVars, filterVars>>
    \/ PlayRejected /\ UNCHANGED <<zoomVars, clampVars, exportVars, filterVars>>

InitPlayback == HookInit /\ StoreInit /\ ZoomIdle /\ ClampIdle /\ ExportInit /\ FilterIdle

SpecPlayback == InitPlayback /\ [][PlaybackNext]_vars

\* the hook over a store that cannot be opened: every finalize chain ends
\* in its catch, and enterReplay returns at its first line
UnavailableNext ==
    \/ \E b \in BOOLEAN : SetEnabled(b) /\ UNCHANGED <<zoomVars, clampVars, exportVars, filterVars>>
    \/ VideoBecomesReady /\ UNCHANGED <<zoomVars, clampVars, exportVars, filterVars>>
    \/ EffectStop /\ UNCHANGED <<zoomVars, clampVars, exportVars, filterVars>>
    \/ EffectWait /\ UNCHANGED <<zoomVars, clampVars, exportVars, filterVars>>
    \/ EffectStart /\ UNCHANGED <<zoomVars, clampVars, exportVars, filterVars>>
    \/ \E t \in 1..MaxTimers : PollFire(t) /\ UNCHANGED <<zoomVars, clampVars, exportVars, filterVars>>
    \/ \E t \in 1..MaxTimers : PollIdle(t) /\ UNCHANGED <<zoomVars, clampVars, exportVars, filterVars>>
    \/ \E t \in 1..MaxTimers : RotationFire(t) /\ UNCHANGED <<zoomVars, clampVars, exportVars, filterVars>>
    \/ \E c \in chains : ChainEmpty(c) /\ UNCHANGED <<zoomVars, clampVars, exportVars, filterVars>>
    \/ \E c \in chains : ChainPreview(c) /\ UNCHANGED <<zoomVars, clampVars, exportVars, filterVars>>
    \/ \E c \in chains : ChainFail(c) /\ UNCHANGED <<zoomVars, clampVars, exportVars, filterVars>>
    \/ EnterCall /\ UNCHANGED <<zoomVars, clampVars, exportVars, filterVars>>

InitUnavailable == HookInit /\ StoreClosed /\ ZoomIdle /\ ClampIdle /\ ExportInit /\ FilterIdle

SpecUnavailable == InitUnavailable /\ [][UnavailableNext]_vars

\* the recording loop with its owner unmounting
TeardownNext ==
    \/ \E b \in BOOLEAN : SetEnabled(b) /\ UNCHANGED <<zoomVars, clampVars, exportVars, filterVars>>
    \/ VideoBecomesReady /\ UNCHANGED <<zoomVars, clampVars, exportVars, filterVars>>
    \/ EffectStop /\ UNCHANGED <<zoomVars, clampVars, exportVars, filterVars>>
    \/ EffectWait /\ UNCHANGED <<zoomVars, clampVars, exportVars, filterVars>>
    \/ EffectStart /\ UNCHANGED <<zoomVars, clampVars, exportVars, filterVars>>
    \/ \E t \in 1..MaxTimers : PollFire(t) /\ UNCHANGED <<zoomVars, clampVars, exportVars, filterVars>>
    \/ \E t \in 1..MaxTimers : PollIdle(t) /\ UNCHANGED <<zoomVars, clampVars, exportVars, filterVars>>
    \/ \E t \in 1..MaxTimers : RotationFire(t) /\ UNCHANGED <<zoomVars, clampVars, exportVars, filterVars>>
    \/ \E c \in chains : ChainEmpty(c) /\ UNCHANGED <<zoomVars, clampVars, exportVars, filterVars>>
    \/ \E c \in chains : ChainPreview(c) /\ UNCHANGED <<zoomVars, clampVars, exportVars, filterVars>>
    \/ \E c \in chains : ChainFail(c) /\ UNCHANGED <<zoomVars, clampVars, exportVars, filterVars>>
    \/ \E c \in chains : ChainSave(c) /\ UNCHANGED <<zoomVars, clampVars, exportVars, filterVars>>
    \/ \E c \in chains : ChainPruneRead(c) /\ UNCHANGED <<zoomVars, clampVars, exportVars, filterVars>>
    \/ \E c \in chains : ChainPruneDelete(c) /\ UNCHANGED <<zoomVars, clampVars, exportVars, filterVars>>
    \/ \E c \in chains : ChainRefresh(c) /\ UNCHANGED <<zoomVars, clampVars, exportVars, filterVars>>
    \/ \E c \in chains : ChainCache(c) /\ UNCHANGED <<zoomVars, clampVars, exportVars, filterVars>>
    \/ EnterCall /\ UNCHANGED <<zoomVars, clampVars, exportVars, filterVars>>
    \/ EnterComplete /\ UNCHANGED <<zoomVars, clampVars, exportVars, filterVars>>
    \/ exitReplay /\ UNCHANGED <<zoomVars, clampVars, exportVars, filterVars>>
    \/ Unmount /\ UNCHANGED <<zoomVars, clampVars, exportVars, filterVars>>

InitTeardown == HookInit /\ StoreInit /\ ZoomIdle /\ ClampIdle /\ ExportInit /\ FilterIdle

SpecTeardown == InitTeardown /\ [][TeardownNext]_vars


\* ------------------------------------------------------------------------
\* Specifications
\* ------------------------------------------------------------------------
ExportNext ==
    \/ SaveVideoCall /\ UNCHANGED <<zoomVars, clampVars, filterVars>>
    \/ ExportRender /\ UNCHANGED <<zoomVars, clampVars, filterVars>>
    \/ ExportResolve /\ UNCHANGED <<zoomVars, clampVars, filterVars>>
    \/ ExportReject /\ UNCHANGED <<zoomVars, clampVars, filterVars>>
    \/ \E ts \in 1..MaxTimestamp : saveChunk(ts) /\ UNCHANGED <<lastCall, zoomVars, clampVars, hookVars, exportVars, filterVars>>
    \/ db # {} /\ clear /\ UNCHANGED <<lastCall, zoomVars, clampVars, hookVars, exportVars, filterVars>>

InitExport == ExportInit /\ HookInit /\ StoreInit /\ ZoomIdle /\ ClampIdle /\ FilterIdle

SpecExport == InitExport /\ [][ExportNext]_vars

SpeedNext ==
    \/ ClampSpeedOnce /\ UNCHANGED <<zoomVars, clampVars, storeVars, hookVars, exportVars, smoothVars, exportOutVars>>

InitSpeed == SpeedInit /\ SmoothIdle /\ ExportOutIdle /\ ZoomIdle /\ ClampIdle /\ StoreInit /\ HookInit /\ ExportInit

SpecSpeed == InitSpeed /\ [][SpeedNext]_vars

SmoothNext ==
    \/ SmoothUpdate /\ UNCHANGED <<zoomVars, clampVars, storeVars, hookVars, exportVars, speedVars, exportOutVars>>

InitSmooth == SmoothInit /\ SpeedIdle /\ ExportOutIdle /\ ZoomIdle /\ ClampIdle /\ StoreInit /\ HookInit /\ ExportInit

\* update is called again and again
SpecSmooth == InitSmooth /\ [][SmoothNext]_vars /\ WF_vars(SmoothNext)

ZoomNext ==
    \/ ModelLoads /\ UNCHANGED <<clampVars, storeVars, hookVars, exportVars, filterVars>>
    \/ ZoomEffect /\ UNCHANGED <<clampVars, storeVars, hookVars, exportVars, filterVars>>
    \/ \E hands \in Frames : Detect(hands) /\ UNCHANGED <<clampVars, storeVars, hookVars, exportVars, filterVars>>
    \/ VideoAdvance /\ UNCHANGED <<clampVars, storeVars, hookVars, exportVars, filterVars>>

InitZoom == ZoomInit /\ ClampIdle /\ StoreInit /\ HookInit /\ ExportInit /\ FilterIdle

SpecZoom == InitZoom /\ [][ZoomNext]_vars

\* the hook's life cycle: model loading, prop changes, effects, callbacks
LoopNext ==
    \/ ModelLoads /\ UNCHANGED <<clampVars, storeVars, hookVars, exportVars, filterVars>>
    \/ ModelFails /\ UNCHANGED <<clampVars, storeVars, hookVars, exportVars, filterVars>>
    \/ \E b \in BOOLEAN : SetZoomEnabled(b) /\ UNCHANGED <<clampVars, storeVars, hookVars, exportVars, filterVars>>
    \/ \E preset \in Presets : SetPreset(preset) /\ UNCHANGED <<clampVars, storeVars, hookVars, exportVars, filterVars>>
    \/ ZoomEffect /\ UNCHANGED <<clampVars, storeVars, hookVars, exportVars, filterVars>>
    \/ \E hands \in LoopFrames : Detect(hands) /\ UNCHANGED <<clampVars, storeVars, hookVars, exportVars, filterVars>>
    \/ DetectIdle /\ UNCHANGED <<clampVars, storeVars, hookVars, exportVars, filterVars>>
    \/ VideoAdvance /\ UNCHANGED <<clampVars, storeVars, hookVars, exportVars, filterVars>>

InitLoop == ZoomInit /\ ClampIdle /\ StoreInit /\ HookInit /\ ExportInit /\ FilterIdle

SpecLoop == InitLoop /\ [][LoopNext]_vars

\* the zoom-in session followed by ticks without hands
ReturnNext ==
    \/ ModelLoads /\ UNCHANGED <<clampVars, storeVars, hookVars, exportVars, filterVars>>
    \/ ZoomEffect /\ UNCHANGED <<clampVars, storeVars, hookVars, exportVars, filterVars>>
    \/ \E hands \in ReturnFrames(frameCount + 1) : Detect(hands) /\ UNCHANGED <<clampVars, storeVars, hookVars, exportVars, filterVars>>
    \/ VideoAdvanceTo(ReturnTicks) /\ UNCHANGED <<clampVars, storeVars, hookVars, exportVars, filterVars>>

InitReturn == ZoomInit /\ ClampIdle /\ StoreInit /\ HookInit /\ ExportInit /\ FilterIdle

SpecReturn == InitReturn /\ [][ReturnNext]_vars

\* a session long enough for the zoom to reach its upper limit
RangeNext ==
    \/ ModelLoads /\ UNCHANGED <<clampVars, storeVars, hookVars, exportVars, filterVars>>
    \/ ZoomEffect /\ UNCHANGED <<clampVars, storeVars, hookVars, exportVars, filterVars>>
    \/ \E hands \in RangeFrames(frameCount + 1) : Detect(hands) /\ UNCHANGED <<clampVars, storeVars, hookVars, exportVars, filterVars>>
    \/ VideoAdvanceTo(RangeTicks) /\ UNCHANGED <<clampVars, storeVars, hookVars, exportVars, filterVars>>

InitRange == ZoomInit /\ ClampIdle /\ StoreInit /\ HookInit /\ ExportInit /\ FilterIdle

SpecRange == InitRange /\ [][RangeNext]_vars

ClampNext ==
    \/ ClampOnce /\ UNCHANGED <<zoomVars, storeVars, hookVars, exportVars, filterVars>>
    \/ ClampTwice /\ UNCHANGED <<zoomVars, storeVars, hookVars, exportVars, filterVars>>

InitClamp == ClampInit /\ ZoomIdle /\ StoreInit /\ HookInit /\ ExportInit /\ FilterIdle

SpecClamp == InitClamp /\ [][ClampNext]_vars

\* the service driven call by call, as by its tests
StoreNext ==
    \/ \E ts \in 1..MaxTimestamp : saveChunk(ts) /\ Called("save", 0) /\ UNCHANGED <<zoomVars, clampVars, hookVars, exportVars, filterVars>>
    \/ \E k \in 0..MaxKeep : pruneOldChunks(k) /\ Called("prune", k) /\ UNCHANGED <<zoomVars, clampVars, hookVars, exportVars, filterVars>>
    \/ clear /\ Called("clear", 0) /\ UNCHANGED <<zoomVars, clampVars, hookVars, exportVars, filterVars>>
    \/ exportVideo /\ Called("export", 0) /\ UNCHANGED <<zoomVars, clampVars, hookVars, exportVars, speedVars, smoothVars>>

InitStore == StoreInit /\ ZoomIdle /\ ClampIdle /\ HookInit /\ ExportInit /\ FilterIdle

SpecStore == InitStore /\ [][StoreNext]_vars

\* ------------------------------------------------------------------------
\* Claims
\* ------------------------------------------------------------------------
\* (1 - 1/zoom) / 2 in the model's arithmetic
PanBound(z) == TDiv(Scale - TDiv(Scale * Scale, z), 2)

LastEntry(trace) == trace[Len(trace)]

\* C1: after any sequence of detection ticks the published pan satisfies
\* |pan.x| <= (1 - 1/zoom)/2 and |pan.y| <= (1 - 1/zoom)/2 for the zoom
\* published in the same tick, and the published (viewport-clamped) value is
\* the one stored as the previous output.
C1_PanWithinViewport ==
    /\ Abs(pan.x) <= PanBound(zoom)
    /\ Abs(pan.y) <= PanBound(zoom)
    /\ prevPosition = [x |-> pan.x, y |-> pan.y, zoom |-> zoom]

\* C1 witness: a tick with hands and then a tick without hands have run,
\* and the published pan sits on the (non-zero) viewport bound
C1_Witness ==
    /\ Len(debugTrace) >= 2
    /\ LastEntry(debugTrace).handsDetected = 0
    /\ \E i \in DOMAIN debugTrace : debugTrace[i].handsDetected > 0
    /\ pan.x = PanBound(zoom)
    /\ pan.x > 0
    /\ clampedEdges.left

\* C4: on a tick with at least one hand the committed target is left
\* unchanged when zoomDelta <= 0.1 and panDelta <= 0.025, and becomes exactly
\* the raw target when either exceeds its threshold; before the first
\* observation the committed target is {zoom 1, pan (0,0)}.
C4_HandsTick ==
    /\ frameCount' = frameCount + 1
    /\ LastEntry(debugTrace').handsDetected > 0

C4_RawOfTick == [zoom |-> LastEntry(debugTrace').targetZoom,
                 pan |-> LastEntry(debugTrace').targetPan]

C4_WithinDeadband ==
    /\ Abs(C4_RawOfTick.zoom - committedTarget.zoom) * 10 <= Scale
    /\ 1600 * ((C4_RawOfTick.pan.x - committedTarget.pan.x)
                  * (C4_RawOfTick.pan.x - committedTarget.pan.x)
              + (C4_RawOfTick.pan.y - committedTarget.pan.y)
                  * (C4_RawOfTick.pan.y - committedTarget.pan.y)) <= Scale * Scale

C4_Step ==
    C4_HandsTick =>
        /\ C4_WithinDeadband => committedTarget' = committedTarget
        /\ ~C4_WithinDeadband => committedTarget' = C4_RawOfTick

C4_Hysteresis ==
    /\ (frameCount = 0 => committedTarget = [zoom |-> Scale, pan |-> [x |-> 0, y |-> 0]])
    /\ [][C4_Step]_vars

\* C4 witness: the trace shows a tick with hands that committed its raw
\* target, followed by a tick with hands whose raw target differed from the
\* committed one and was held back
C4_Witness ==
    \E i, j \in DOMAIN debugTrace :
        /\ i < j
        /\ debugTrace[i].handsDetected > 0
        /\ debugTrace[i].committedZoom = debugTrace[i].targetZoom
        /\ debugTrace[i].committedPan = debugTrace[i].targetPan
        /\ debugTrace[i].targetZoom # Scale
        /\ debugTrace[j].handsDetected > 0
        /\ debugTrace[j].committedPan # debugTrace[j].targetPan
        /\ committedTarget.pan = debugTrace[j].committedPan

\* C5: for every zoom in [1,3] and every input pan, clampNormalizedPan
\* returns a pan with |pan.x| <= (1 - 1/zoom)/2 and |pan.y| <= (1 - 1/zoom)/2;
\* at zoom = 1 the returned pan is (0,0) for any input pan.
C5_ClampBounded ==
    (cStage # "input" /\ cZoom >= 1 * Scale /\ cZoom <= 3 * Scale) =>
        /\ Abs(cRes.pan.x) <= PanBound(cZoom)
        /\ Abs(cRes.pan.y) <= PanBound(cZoom)
        /\ cZoom = 1 * Scale => cRes.pan = [x |-> 0, y |-> 0]

\* C5 witness: an out-of-bounds pan has been clamped at zoom 1
C5_Witness ==
    /\ cStage = "once"
    /\ cZoom = 1 * Scale
    /\ cPan.x > 0
    /\ cPan.y < 0
    /\ cRes.pan = [x |-> 0, y |-> 0]

C6_InBounds ==
    /\ Abs(cPan.x) <= PanBound(cZoom)
    /\ Abs(cPan.y) <= PanBound(cZoom)

C7_Edges ==
    cStage # "input" =>
        /\ cRes.clampedEdges.left   <=> (cPan.x >= PanBound(cZoom))
        /\ cRes.clampedEdges.right  <=> (cPan.x <= -PanBound(cZoom))
        /\ cRes.clampedEdges.top    <=> (cPan.y >= PanBound(cZoom))
        /\ cRes.clampedEdges.bottom <=> (cPan.y <= -PanBound(cZoom))
        /\ (cZoom = 2 * Scale /\ 10 * cPan.x = 4 * Scale /\ 10 * cPan.y = -3 * Scale) =>
               /\ 4 * cRes.pan.x = Scale
               /\ 4 * cRes.pan.y = -Scale
               /\ cRes.clampedEdges = [left |-> TRUE, right |-> FALSE,
                                        top |-> FALSE, bottom |-> TRUE]

\* C7 witness: the input of the example (zoom 2, pan (0.4,-0.3)) was clamped
C7_Witness ==
    /\ cStage = "once"
    /\ cZoom = 2 * Scale
    /\ 10 * cPan.x = 4 * Scale
    /\ 10 * cPan.y = -3 * Scale
    /\ cRes.clampedEdges.left

\* C8: pruneOldest(k) on a store of n segments leaves exactly the min(n,k)
\* segments with the largest capturedAt, which getAll() returns in ascending
\* capturedAt order whatever order they were saved in; it changes nothing
\* when n <= k and empties the store when k = 0.
C8_Ascending(seq) ==
    \A i, j \in 1..Len(seq) : i < j => seq[i].timestamp <= seq[j].timestamp

C8_Step ==
    lastCall'.op = "prune" =>
        /\ db' \subseteq db
        /\ Cardinality(db') = Min2(Cardinality(db), lastCall'.keep)
        /\ \A kept \in db', gone \in db \ db' : kept.timestamp >= gone.timestamp
        /\ Len(getAllChunks(db')) = Cardinality(db')
        /\ {getAllChunks(db')[i] : i \in 1..Cardinality(db')} = db'
        /\ C8_Ascending(getAllChunks(db'))
        /\ Cardinality(db) <= lastCall'.keep => db' = db
        /\ lastCall'.keep = 0 => db' = {}

C8_Prune == [][C8_Step]_vars

\* C8 witness: chunks were saved out of capture order (a larger id with a
\* smaller timestamp), and a prune to 2 kept two and dropped the oldest
C8_Witness ==
    /\ lastCall = [op |-> "prune", keep |-> 2]
    /\ Cardinality(db) = 2
    /\ nextId = MaxSaves + 1
    /\ \E a, b \in db : a.id < b.id /\ a.timestamp > b.timestamp
    /\ \A c \in db : c.timestamp >= 2

\* ------------------------------------------------------------------------
\* C2 (as stated): at every moment of a recording session, also between a
\* chunk's save and the prune that follows it, the store holds at most
\* maxChunks chunks.
C2_AtMostMaxChunks == Cardinality(db) <= maxChunks

\* the finalize chains that have saved their chunk and not finished pruning
C2_Pruning == {c \in chains : c.pc \in {"pruneRead", "pruneDelete"}}

\* C2 (amended): the store holds at most maxChunks chunks plus one for every
\* save that no completed prune has covered yet; that is at most maxChunks
\* once every save was followed by a completed prune, and at most one more
\* per finalize chain that stands between its save and the end of its prune.
C2_BoundedBySaves ==
    /\ prunedSeq <= saveSeq
    /\ Cardinality(db) <= maxChunks + (saveSeq - prunedSeq)
    /\ (failedTs = 0 => saveSeq - prunedSeq <= Cardinality(C2_Pruning))
    /\ (prunedSeq = saveSeq => Cardinality(db) <= maxChunks)

\* a prune has deleted the oldest chunk: maxChunks + 1 chunks were saved,
\* every save is pruned and the store is full without the first chunk
C2_Witness ==
    /\ saveSeq = maxChunks + 1
    /\ prunedSeq = saveSeq
    /\ Cardinality(db) = maxChunks
    /\ \A c \in db : c.id > 1

C9_Forward(i, n) == IF i = n - 1 THEN 0 ELSE i + 1

C9_Backward(i, n) == IF i = 0 THEN n - 1 ELSE i - 1

C9_Step ==
    isReplaying /\ Len(chunksRef) >= 1 =>
        /\ nextChunk =>
              currentChunkIndex' = C9_Forward(currentChunkIndex, Len(chunksRef))
        /\ AutoAdvance =>
              currentChunkIndex' = C9_Forward(currentChunkIndex, Len(chunksRef))
        /\ prevChunk =>
              currentChunkIndex' = C9_Backward(currentChunkIndex, Len(chunksRef))
        /\ nextChunk /\ nextsLeft = 1 => currentChunkIndex' = 0

C9_Wraparound == [][C9_Step]_vars

\* ------------------------------------------------------------------------
\* C10 (as stated): enterReplay has no effect when the store holds no chunk
\* at the time of the call; otherwise it ends with isReplaying = true,
\* currentChunkIndex = 0, isPlaying = true and the stored chunks loaded in
\* capture order.
C10_Step ==
    /\ EnterCall /\ db = {} => enterPc' = "idle"
    /\ EnterComplete => ~enterEmptyAtCall
    /\ EnterCall /\ db # {} => enterPc' = "reading"
    /\ EnterComplete =>
          /\ isReplaying' /\ isPlaying'
          /\ currentChunkIndex' = 0
          /\ chunksRef' = getAllChunks(db)

C10_Enter == [][C10_Step]_vars

\* ------------------------------------------------------------------------
\* C11: seekToChunk(i) sets currentChunkIndex to i clamped into
\* [0, count - 1], for negative i and i past the end too, and changes
\* nothing else of the replay session.
C11_Clamped(i, count) == IF i < 0 THEN 0 ELSE IF i > count - 1 THEN count - 1 ELSE i

C11_Step ==
    \A i \in SeekInputs :
        seekToChunk(i) =>
            /\ Len(chunksRef) >= 1 =>
                  /\ currentChunkIndex' = C11_Clamped(i, Len(chunksRef))
                  /\ currentChunkIndex' \in 0..(Len(chunksRef) - 1)
            /\ Len(chunksRef) = 0 => currentChunkIndex' = 0
            /\ UNCHANGED <<isReplaying, isPlaying, chunksRef, enterPc, chunkCount,
                           isRecording, recordingError, db>>

C11_Seek == [][C11_Step]_vars

\* seeks below the list, past its end and inside it have acted on a session
\* of two chunks
C11_BelowWitness ==
    isReplaying /\ Len(chunksRef) = 2 /\ seekArg < 0 /\ currentChunkIndex = 0

C11_Witness ==
    /\ isReplaying
    /\ Len(chunksRef) = 2
    /\ seekArg > Len(chunksRef) - 1
    /\ currentChunkIndex = Len(chunksRef) - 1

\* ------------------------------------------------------------------------
\* C12 (as stated): saveVideo is not re-entrant: a call made while an export
\* is in flight, also one made before the first call's state update has
\* taken effect, does nothing, so at most one exportVideo call is in flight
\* and at most one download happens per export.
C12_NotReentrant ==
    /\ exports <= 1
    /\ exports > 0 => isExporting

\* ------------------------------------------------------------------------
\* C13: whenever an export settles, by a download, by an empty blob (no
\* download) or by exportVideo rejecting, isExporting is false again, and a
\* rejection is reported as recordingError = 'Export failed - please try
\* again'.
C13_Step ==
    /\ ExportResolve =>
          /\ ~isExporting'
          /\ db = {} => downloads' = downloads
          /\ recordingError' = recordingError
    /\ ExportReject =>
          /\ ~isExporting'
          /\ downloads' = downloads
          /\ recordingError' = ExportFailed

C13_Settles == [][C13_Step]_vars

\* an export was rejected and a later one was started and downloaded
C13_Witness ==
    /\ recordingError = ExportFailed
    /\ ~isExporting
    /\ exports = 0
    /\ exportCalls = 2
    /\ downloads = 1

\* ------------------------------------------------------------------------
\* C14: clampSpeed(prev, next, maxPanSpeed, maxZoomSpeed) returns r with
\* |r.x - prev.x| <= maxPanSpeed, |r.y - prev.y| <= maxPanSpeed and
\* |r.zoom - prev.zoom| <= maxZoomSpeed; r moves from prev in the direction
\* of next on each channel, and equals next on a channel whose change is
\* within the limit.
C14_Channel(prev, next, r, limit) ==
    /\ Abs(r - prev) <= limit
    /\ next > prev => r > prev /\ r <= next
    /\ next < prev => r < prev /\ r >= next
    /\ Abs(next - prev) <= limit => r = next

C14_SpeedBound ==
    sStage = "clamped" =>
        /\ C14_Channel(sPrev.x, sNext.x, sRes.x, SpeedPanLimit(sHands))
        /\ C14_Channel(sPrev.y, sNext.y, sRes.y, SpeedPanLimit(sHands))
        /\ C14_Channel(sPrev.zoom, sNext.zoom, sRes.zoom, SpeedZoomLimit(sHands))

\* x was limited on its way up, y on its way down, zoom was within the limit
C14_Witness ==
    /\ sStage = "clamped"
    /\ sNext.x > sPrev.x + maxPanSpeed /\ sRes.x = sPrev.x + maxPanSpeed
    /\ sNext.y < sPrev.y - maxPanSpeed /\ sRes.y = sPrev.y - maxPanSpeed
    /\ sNext.zoom # sPrev.zoom /\ sRes.zoom = sNext.zoom

\* ------------------------------------------------------------------------
\* C15: for each of the three presets, calling update with the same target
\* again and again drives the estimate of x, y and zoom to the target: from
\* some call on the estimate stays within the tolerance (here one hundredth,
\* the resolution the fixed-point arithmetic of the model allows).
C15_Tolerance == Scale \div 100

C15_Within ==
    /\ Abs(fSmoother.x - fTarget.x) <= C15_Tolerance
    /\ Abs(fSmoother.y - fTarget.y) <= C15_Tolerance
    /\ Abs(fSmoother.zoom - fTarget.zoom) <= C15_Tolerance

C16_Xs(hands) == {q.x : q \in Landmarks(hands)}

C16_Ys(hands) == {q.y : q \in Landmarks(hands)}

C16_MaxDim(hands) ==
    Max2(SetMax(C16_Xs(hands)) - SetMin(C16_Xs(hands)),
         SetMax(C16_Ys(hands)) - SetMin(C16_Ys(hands)))

\* 1 / (maxDim x 2) is at most 1 when maxDim >= 1/2, at least 3 when
\* maxDim <= 1/6, and 1 / (2 maxDim) between
C16_RawZoom(hands) ==
    IF 2 * C16_MaxDim(hands) >= Scale THEN 1 * Scale
    ELSE IF 6 * C16_MaxDim(hands) <= Scale THEN 3 * Scale
    ELSE TDiv(Scale * Scale, 2 * C16_MaxDim(hands))

C16_RawPan(hands) ==
    [x |-> (Scale \div 2) - TDiv(SetMin(C16_Xs(hands)) + SetMax(C16_Xs(hands)), 2),
     y |-> (Scale \div 2) - TDiv(SetMin(C16_Ys(hands)) + SetMax(C16_Ys(hands)), 2)]

C16_Step ==
    \A hands \in Frames :
        Detect(hands) /\ Len(hands) > 0 =>
            /\ LastEntry(debugTrace').targetZoom = C16_RawZoom(hands)
            /\ LastEntry(debugTrace').targetPan = C16_RawPan(hands)
            /\ LastEntry(debugTrace').targetZoom >= 1 * Scale
            /\ LastEntry(debugTrace').targetZoom <= 3 * Scale

C17_Step == EnterComplete => recording = {} /\ mediaRecorderRef = 0

C17_StopBeforeLoad == [][C17_Step]_vars

\* ------------------------------------------------------------------------
\* C18 (as stated): if the video never gets ready the recorder does not wait
\* forever: after a bounded number of readiness polls (fewer than MaxPolls
\* here) it leaves the wait, no poll stays alive, isRecording is false and a
\* 'not ready' condition is reported through recordingError.
C18_BoundedWait ==
    polls >= MaxPolls =>
        /\ pollTimers = {}
        /\ ~isRecording
        /\ recordingError # "null"

\* ------------------------------------------------------------------------
\* C19: when persisting one chunk fails (preview extraction, save or prune
\* rejects) recording does not stop. The step in which a finalize chain ends
\* in its catch leaves the recorder, the rotation interval and isRecording
\* as they are, and after a failure every recorder that is stopped still
\* hands its chunk to a new finalize chain that starts at the save.
C19_Step ==
    /\ \A c \in chains :
          ChainFail(c) =>
              UNCHANGED <<isRecording, mediaRecorderRef, recording,
                          recordingIntervalRef, rotationTimers>>
    /\ failedTs > 0 =>
          \A ts \in recording \ recording' : NewChain(ts) \in chains'

C19_KeepsRecording == [][C19_Step]_vars

\* the first chunk failed to persist, and the chunk recorded after it was
\* captured, finalized and saved
C19_Witness ==
    /\ failedTs = 1
    /\ \E c \in db : c.timestamp = 2 /\ c.id = 1

\* ------------------------------------------------------------------------
\* C20 (as stated): when a chunk fails to persist, the hook reports it:
\* the step in which the finalize chain fails leaves recordingError
\* non-null.
C20_Step == \A c \in chains : ChainFail(c) => recordingError' # "null"

C20_ErrorSurfaced == [][C20_Step]_vars

\* ------------------------------------------------------------------------
\* C21: if the hand detector fails to initialise, no detection tick ever
\* runs and the published zoom stays 1 and the published pan (0,0),
\* whatever enable / disable or preset changes follow; the failure is an
\* ordinary step of the hook (ModelFails), nothing is thrown to the host.
C21_Degraded ==
    landmarker = "failed" =>
        /\ zoom = 1 * Scale
        /\ pan = [x |-> 0, y |-> 0]
        /\ frameCount = 0
        /\ debugTrace = << >>
        /\ lastVideoTime = -1
        /\ ~requestRef

\* the detector failed, and afterwards the hook was disabled with another
\* preset selected and the camera kept delivering frames
C21_Witness ==
    /\ landmarker = "failed"
    /\ ~zoomEnabled
    /\ ~zoomEffectDirty
    /\ smoothingPreset = "kalmanFast"
    /\ smoother = createSmoother("kalmanFast")
    /\ videoTime = MaxTicks

\* ------------------------------------------------------------------------
\* C25: a detection callback processes a frame only when the video time
\* differs from the time of the last processed frame. No step taken while
\* the two are equal changes the frame count, the trace or the published
\* zoom and pan; a processing step counts one frame, appends one trace
\* entry and records the frame time; so no more frames are processed than
\* frame times were seen.
C25_Step ==
    /\ videoTime = lastVideoTime =>
          UNCHANGED <<frameCount, debugTrace, zoom, pan, prevPosition,
                      committedTarget, lastVideoTime>>
    /\ frameCount' # frameCount =>
          /\ frameCount' = frameCount + 1
          /\ lastVideoTime' = videoTime
          /\ debugTrace' # debugTrace
          /\ LastEntry(debugTrace').frame = frameCount'
    /\ frameCount <= videoTime + 1

C25_OncePerFrame == [][C25_Step]_vars

\* a frame was processed and the next callback, seeing the same frame time,
\* was skipped
C25_Witness ==
    /\ skipped
    /\ requestRef
    /\ frameCount = 1
    /\ Len(debugTrace) = 1
    /\ videoTime = lastVideoTime

\* ------------------------------------------------------------------------
\* C26: the diagnostic trace is a bounded FIFO. It never holds more than
\* the cap; it holds one entry per processed tick until it is full; its
\* entries are the most recent ticks in order, with consecutive frame
\* numbers that end at the current frame count (the oldest is evicted).
C26_BoundedFifo ==
    /\ Len(debugTrace) <= TraceCap
    /\ Len(debugTrace) = Min2(frameCount, TraceCap)
    /\ \A i \in 1..Len(debugTrace) :
          debugTrace[i].frame = frameCount - Len(debugTrace) + i

\* one tick more than the cap was processed: the first entry is gone
C26_Witness ==
    /\ frameCount = TraceCap + 1
    /\ Len(debugTrace) = TraceCap
    /\ debugTrace[1].frame = 2

\* ------------------------------------------------------------------------
\* C27: on a tick with zero hands the raw and the committed target are the
\* default {zoom 1, pan (0,0)} whatever the committed target was before,
\* and the published output moves from the previous output by at most half
\* of maxZoomSpeed and half of maxPanSpeed.
C27_Step ==
    Detect(<< >>) =>
        /\ committedTarget' = DefaultTarget
        /\ LastEntry(debugTrace').targetZoom = 1 * Scale
        /\ LastEntry(debugTrace').targetPan = [x |-> 0, y |-> 0]
        /\ Abs(zoom' - zoom) <= TDiv(maxZoomSpeed, 2)
        /\ Abs(pan'.x - pan.x) <= TDiv(maxPanSpeed, 2)
        /\ Abs(pan'.y - pan.y) <= TDiv(maxPanSpeed, 2)
        /\ zoom = prevPosition.zoom
        /\ pan = [x |-> prevPosition.x, y |-> prevPosition.y]

C29_Step ==
    /\ (ZoomEffect /\ smoother.preset # smoothingPreset) =>
          smoother' = createSmoother(smoothingPreset)
    /\ smoother' # smoother =>
          \/ ZoomEffect /\ smoother.preset # smoothingPreset
          \/ smoother' = SmootherUpdate(smoother, SmoothTarget(committedTarget'))
    /\ ~zoomEffectDirty => smoother.preset = smoothingPreset

C29_PresetSwitch == [][C29_Step]_vars

\* ticks have moved the output away from the default, and the smoother is
\* a fresh one: the preset was switched after them
C29_Witness ==
    /\ frameCount > 0
    /\ prevPosition.zoom > 1 * Scale
    /\ ~zoomEffectDirty
    /\ smoother = createSmoother(smoothingPreset)

\* ------------------------------------------------------------------------
\* C28 (as stated): starting from published zoom 2 and pan (0.2,0.1), on
\* ticks with no hands the published zoom does not increase and stays at
\* or above 1, and each published pan component does not grow in absolute
\* value and does not change sign. Stated here for the first such tick.
C28_Start == zoom = 2 * Scale /\ pan = [x |-> Scale \div 5, y |-> Scale \div 10]

C28_Step ==
    (C28_Start /\ Detect(<< >>)) =>
        /\ zoom' <= zoom
        /\ zoom' >= 1 * Scale
        /\ Abs(pan'.x) <= Abs(pan.x)
        /\ Abs(pan'.y) <= Abs(pan.y)
        /\ pan'.x >= 0
        /\ pan'.y >= 0

C28_Monotone == [][C28_Step]_vars

\* ------------------------------------------------------------------------
\* C23: exportVideo on an empty store returns an empty Blob and reports no
\* progress; on a non-empty store the Blob holds the blob of every stored
\* chunk exactly once, in ascending timestamp order, and the progress
\* values reported are non-decreasing and end at 1. The call always
\* completes (exportVideo has no guard).
C23_TimestampOf(id) == (CHOOSE c \in db : c.id = id).timestamp

C23_Exported ==
    lastCall.op = "export" =>
        /\ db = {} => exportBlob = << >> /\ exportProgress = << >>
        /\ db # {} =>
              /\ Len(exportBlob) = Cardinality(db)
              /\ {exportBlob[i] : i \in 1..Len(exportBlob)} = {c.id : c \in db}
              /\ \A i, j \in 1..Len(exportBlob) :
                    i < j => C23_TimestampOf(exportBlob[i]) <= C23_TimestampOf(exportBlob[j])
              /\ Len(exportProgress) >= 1
              /\ \A i, j \in 1..Len(exportProgress) :
                    i < j => exportProgress[i] <= exportProgress[j]
              /\ exportProgress[Len(exportProgress)] = 1 * Scale

\* three chunks, saved out of timestamp order, were exported in timestamp
\* order
C23_Witness ==
    /\ lastCall.op = "export"
    /\ Len(exportBlob) = 3
    /\ exportBlob[1] > exportBlob[2]
    /\ C23_TimestampOf(exportBlob[1]) < C23_TimestampOf(exportBlob[3])

\* ------------------------------------------------------------------------
\* C30: the order of the finalize chain
\* ------------------------------------------------------------------------
\* the step the finalize chain of the recorder started at ts is at
C30_PcOf(cs, ts) ==
    IF \E c \in cs : c.ts = ts THEN (CHOOSE c \in cs : c.ts = ts).pc ELSE "none"

\* the steps of the chain in the order they follow one another
C30_Order ==
    {<<"none", "preview">>, <<"preview", "save">>, <<"save", "pruneRead">>,
     <<"pruneRead", "pruneDelete">>, <<"pruneRead", "refresh">>,
     <<"pruneDelete", "refresh">>, <<"refresh", "cache">>, <<"cache", "none">>}

\* a chain that ends early: no data recorded, or a rejected await
C30_Abandon ==
    {<<"preview", "none">>, <<"save", "none">>, <<"pruneRead", "none">>,
     <<"pruneDelete", "none">>}

C30_Moved(ts, from, to) == C30_PcOf(chains, ts) = from /\ C30_PcOf(chains', ts) = to

\* C30: a finalize chain runs preview, save, prune, refresh in this order;
\* a segment is saved exactly in the step that takes its chain from the
\* save to the prune, chunks are deleted only by a chain that is pruning
\* after its own save, and the reported count changes only in the refresh
\* that follows the prune
C30_Step ==
    /\ \A ts \in 1..MaxClock :
          \/ C30_PcOf(chains', ts) = C30_PcOf(chains, ts)
          \/ <<C30_PcOf(chains, ts), C30_PcOf(chains', ts)>> \in C30_Order \cup C30_Abandon
    /\ saveSeq' # saveSeq =>
          \E ts \in 1..MaxClock :
             /\ C30_Moved(ts, "save", "pruneRead")
             /\ saveSeq' = saveSeq + 1
             /\ db' = db \cup {[id |-> nextId, timestamp |-> ts]}
    /\ \A ts \in 1..MaxClock :
          C30_PcOf(chains, ts) = "save" /\ C30_PcOf(chains', ts) \notin {"save", "none"} =>
             saveSeq' = saveSeq + 1
    /\ (\E ch \in db : ch \notin db') /\ ~HostClear =>
          \E ts \in 1..MaxClock : C30_Moved(ts, "pruneDelete", "refresh")
    /\ chunkCount' # chunkCount =>
          \E ts \in 1..MaxClock : C30_Moved(ts, "refresh", "cache")

C30_ChainOrder == [][C30_Step]_vars

\* a chain has saved its segment, pruned an older one and now refreshes
C30_Witness ==
    \E c \in chains :
       /\ c.pc = "refresh"
       /\ \E ch \in db : ch.timestamp = c.ts
       /\ prunedSeq = saveSeq
       /\ saveSeq > maxChunks
       /\ Cardinality(db) = maxChunks

\* ------------------------------------------------------------------------
\* C22: exitReplay ends the session and recording resumes
\* ------------------------------------------------------------------------
\* C22: exitReplay leaves isReplaying and isPlaying false and schedules the
\* recording effect; when that effect runs after an exit with the recorder
\* enabled and the video ready, a new MediaRecorder is started and
\* isRecording is true
C22_Step ==
    /\ exitReplay => ~isReplaying' /\ ~isPlaying' /\ effectDirty'
    /\ exitedReplay /\ effectDirty /\ ~effectDirty' /\ enabled /\ videoReady =>
          /\ isRecording'
          /\ clock' = clock + 1
          /\ mediaRecorderRef' = clock'
          /\ mediaRecorderRef' \in recording'
          /\ recordingIntervalRef' \in rotationTimers'

C22_ExitResumes == [][C22_Step]_vars

\* a replay was left and the recorder started after it is recording
C22_Witness ==
    /\ exitedReplay
    /\ ~effectDirty
    /\ ~isReplaying
    /\ ~isPlaying
    /\ enabled
    /\ videoReady
    /\ isRecording
    /\ mediaRecorderRef \in recording
    /\ cleanup.kind = "full"

\* ------------------------------------------------------------------------
\* C24: nothing is left running after a teardown
\* ------------------------------------------------------------------------
\* C24: once the owner of the recorder has unmounted, no readiness poll
\* and no rotation interval is live and no MediaRecorder is recording
C24_Cancelled ==
    unmounted => rotationTimers = {} /\ pollTimers = {} /\ recording = {}

\* ------------------------------------------------------------------------
\* C38: opposite edges
\* ------------------------------------------------------------------------
\* C38: clampNormalizedPan never reports left together with right, nor top
\* together with bottom
C38_NoOppositeEdges ==
    cStage # "input" =>
        /\ ~(cRes.clampedEdges.left /\ cRes.clampedEdges.right)
        /\ ~(cRes.clampedEdges.top /\ cRes.clampedEdges.bottom)

\* ------------------------------------------------------------------------
\* C37, C39: range and speed of the published output
\* ------------------------------------------------------------------------
\* C37: the published zoom lies in [MIN_ZOOM, MAX_ZOOM]
C37_ZoomInRange == MIN_ZOOM <= zoom /\ zoom <= MAX_ZOOM

\* after a long session on one fingertip the view is within 0.01 of MAX_ZOOM
C37_Witness ==
    /\ zoom >= MAX_ZOOM - Scale \div 100
    /\ committedTarget.zoom = MAX_ZOOM
    /\ LastEntry(debugTrace).handsDetected = 1
    /\ frameCount > RangeHold

C39_Abs(a) == IF a < 0 THEN 0 - a ELSE a

\* the speed limits of the tick just taken: halved when no hand was seen
C39_PanLimit == IF LastEntry(debugTrace').handsDetected = 0
                THEN maxPanSpeed \div 2 ELSE maxPanSpeed

C39_ZoomLimit == IF LastEntry(debugTrace').handsDetected = 0
                 THEN maxZoomSpeed \div 2 ELSE maxZoomSpeed

\* C39: a processed tick moves the published zoom by at most maxZoomSpeed
\* and each published pan component by at most maxPanSpeed, half of these
\* when no hand was detected
C39_Step ==
    frameCount' # frameCount =>
        /\ C39_Abs(zoom' - zoom) <= C39_ZoomLimit
        /\ C39_Abs(pan'.x - pan.x) <= C39_PanLimit
        /\ C39_Abs(pan'.y - pan.y) <= C39_PanLimit

C31_Busy == {"preview", "save", "pruneRead", "pruneDelete"}

\* C31: when the chain of a segment saves, no chain of an earlier segment
\* is still before the end of its own save and prune
C31_Step ==
    \A c \in chains :
       c.pc = "save" /\ C30_PcOf(chains', c.ts) = "pruneRead" =>
          \A d \in chains : d.ts < c.ts => d.pc \notin C31_Busy

C31_NoInterleave == [][C31_Step]_vars

\* C32: while replaying, the session's list of chunks does not change
C32_Step == isReplaying /\ isReplaying' => chunksRef' = chunksRef

C32_SnapshotKept == [][C32_Step]_vars

\* C36: while replaying, 0 <= currentChunkIndex <= chunksRef.length - 1
C36_IndexInRange ==
    isReplaying => 0 <= currentChunkIndex /\ currentChunkIndex <= Len(chunksRef) - 1

\* ------------------------------------------------------------------------
\* C35: a capture session that fails to start
\* ------------------------------------------------------------------------
\* C35: isRecording is true only while a MediaRecorder is recording, and
\* after a start that failed recordingError holds the failure message
C35_Honest ==
    /\ isRecording => mediaRecorderRef # 0 /\ mediaRecorderRef \in recording
    /\ (isRecording /\ mediaRecorderRef = 0) => recordingError = RecordingFailed

\* ------------------------------------------------------------------------
\* C40: one capture session at a time
\* ------------------------------------------------------------------------
\* C40: at most one MediaRecorder is recording and at most one rotation
\* interval is live
C40_OneSession == Cardinality(recording) <= 1 /\ Cardinality(rotationTimers) <= 1

\* ------------------------------------------------------------------------
\* C34: a chunk that fails to play
\* ------------------------------------------------------------------------
\* C34: once play() of the loaded chunk was rejected, playback is paused
\* and the failure is visible in the state the hook returns
C34_Paused == playbackFailed => ~isPlaying /\ recordingError # "null"

\* ------------------------------------------------------------------------
\* C33: a store that cannot be opened
\* ------------------------------------------------------------------------
\* C33: when the store cannot be opened no MediaRecorder is ever started,
\* isRecording stays false and chunkCount stays 0
C33_Disabled ==
    ~dbOpens =>
        /\ ~isRecording
        /\ recording = {}
        /\ chunkCount = 0


====
